---- MODULE Spec2Model ----
(***************************************************************************)
(* ja-law-parser: the typed view over Japanese statute XML.                *)
(*                                                                         *)
(* An XML element is a record [tag, attrs, text, tail, kids]; attrs is a   *)
(* function from attribute names to raw strings, text and tail are         *)
(* optional strings and kids is the sequence of child elements in          *)
(* document order (lxml's element.text / element.tail / iterchildren()).   *)
(* An optional value is a sequence of length at most one: None is <<>>,    *)
(* Some(v) is <<v>>, so that "absent", "" and an empty list stay distinct. *)
(* The outcome of a call is a record [exc, val]: exc = "" for a normal     *)
(* return of val, otherwise the name of the exception raised.              *)
(***************************************************************************)
EXTENDS Integers, Sequences, FiniteSets, TLC

VARIABLES root, cls, node, cache, last, served

vars == <<root, cls, node, cache, last, served>>

----------------------------------------------------------------------------
(* Optional values and call outcomes *)

None == <<>>

Some(v) == <<v>>

Ok(v) == [exc |-> "", val |-> v]

Raise(e) == [exc |-> e, val |-> <<>>]

IsOk(r) == r.exc = ""

NotImplementedError == "NotImplementedError"

ValidationError == "ValidationError"

ValueError == "ValueError"

Elem(tag, attrs, text, tail, kids) ==
  [tag |-> tag, attrs |-> attrs, text |-> text, tail |-> tail, kids |-> kids]

NoAttrs == <<>>

\* A value that was computed or validated, as a present optional value; an
\* exception stays the exception.
Present(v) == IF IsOk(v) THEN Ok(Some(v.val)) ELSE v

----------------------------------------------------------------------------
(* Attribute access *)

\* A lookup that takes an empty value for a missing one.
get_attr_truthy(element, tag) ==
  IF tag \in DOMAIN element.attrs /\ element.attrs[tag] # ""
  THEN Some(element.attrs[tag])
  ELSE None

\* get_attr: None when the attribute is not on the element, else its raw
\* string (lxml hands out str, so the bytes branch decodes to the same text).
get_attr(element, tag) ==
  IF tag \in DOMAIN element.attrs THEN Some(element.attrs[tag]) ELSE None

\* Python's str.strip() on the ASCII space, as int() applies it.
RECURSIVE LStrip(_)
LStrip(s) == IF Len(s) > 0 /\ Head(s) = " " THEN LStrip(Tail(s)) ELSE s

RECURSIVE RStrip(_)
RStrip(s) ==
  IF Len(s) > 0 /\ SubSeq(s, Len(s), Len(s)) = " "
  THEN RStrip(SubSeq(s, 1, Len(s) - 1))
  ELSE s

Digits == <<"0", "1", "2", "3", "4", "5", "6", "7", "8", "9">>

IsDigit(c) == \E d \in 1..Len(Digits) : Digits[d] = c

DigitVal(c) == (CHOOSE d \in 1..Len(Digits) : Digits[d] = c) - 1

RECURSIVE AllDigits(_)
AllDigits(s) == Len(s) = 0 \/ (IsDigit(Head(s)) /\ AllDigits(Tail(s)))

RECURSIVE DecVal(_, _)
DecVal(s, acc) ==
  IF Len(s) = 0 THEN acc ELSE DecVal(Tail(s), acc * 10 + DigitVal(Head(s)))

\* int(str): surrounding blanks are stripped, one sign is allowed, the rest
\* must be decimal digits; anything else raises ValueError.
PyInt(raw) ==
  LET s == RStrip(LStrip(raw))
      signed == Len(s) > 0 /\ Head(s) \in {"-", "+"}
      body == IF signed THEN Tail(s) ELSE s
  IN  IF Len(body) = 0 \/ ~AllDigits(body)
      THEN Raise(ValueError)
      ELSE Ok(IF signed /\ Head(s) = "-" THEN 0 - DecVal(body, 0) ELSE DecVal(body, 0))

StyleValues == {"solid", "dotted", "double", "none"}

WritingModeValues == {"vertical", "horizontal"}

FunctionValues == {"main", "proviso"}

IndentValues ==
  {"Paragraph", "Item", "Subitem1", "Subitem2", "Subitem3", "Subitem4",
   "Subitem5", "Subitem6", "Subitem7", "Subitem8", "Subitem9", "Subitem10"}

LawTypeValues ==
  {"Constitution", "Act", "CabinetOrder", "ImperialOrder",
   "MinisterialOrdinance", "Rule", "Misc"}

LangValues == {"ja", "en"}

\* A decoding that hands any raw value back.
EnumAttrLenient(element, tag, values) ==
  IF tag \in DOMAIN element.attrs THEN Ok(Some(element.attrs[tag])) ELSE Ok(None)

\* The if/elif chain of an enumerated computed_attr: None when absent, the
\* literal when the raw value is one of them, else NotImplementedError.
EnumAttr(element, tag, values) ==
  IF get_attr(element, tag) = None THEN Ok(None)
  ELSE IF get_attr(element, tag)[1] \in values THEN Ok(get_attr(element, tag))
  ELSE Raise(NotImplementedError)

\* Line.style
LineStyle(element) == EnumAttr(element, "Style", StyleValues)

\* WithWritingMode.writing_mode
WritingMode(element) == EnumAttr(element, "WritingMode", WritingModeValues)

\* Sentence.function
SentenceFunction(element) == EnumAttr(element, "Function", FunctionValues)

\* Sentence.indent
SentenceIndent(element) == EnumAttr(element, "Indent", IndentValues)

\* Sentence.num: None when absent, else int(num); the result is returned as
\* computed, the NonNegativeInt annotation of a computed_attr is not enforced.
SentenceNum(element) ==
  IF get_attr(element, "Num") = None THEN Ok(None)
  ELSE Present(PyInt(get_attr(element, "Num")[1]))

\* LawTitle.kana / abbrev / abbrev_kana: raw_element.get(key=...)
LawTitleAttr(element, key) ==
  IF key \in DOMAIN element.attrs THEN Some(element.attrs[key]) ELSE None

----------------------------------------------------------------------------
(* Declarative binding (BaseXmlModel.from_xml_tree)                        *)
(*                                                                         *)
(* A class is described by its declared fields in declaration order, base  *)
(* classes first.  kind says where the value comes from: "attr" an         *)
(* attribute, "text" the element's own text, "child"/"children" one or a   *)
(* list of sub-models, "raw"/"raws" one or a list of raw elements,         *)
(* "elemtext"/"elemtexts" the text of one or a list of child elements.     *)
(* req is TRUE when the declaration gives no default.                      *)
(* A declared field whose element none of the documents below holds is    *)
(* left out of Schema: its search finds nothing and moves no cursor.      *)

F(name, kind, tag, ty, req) ==
  [name |-> name, kind |-> kind, tag |-> tag, ty |-> ty, req |-> req]

\* Fields every "Num / Delete / Hide" structural node declares.
NumDeleteHide ==
  << F("num", "attr", "Num", "str", TRUE),
     F("delete", "attr", "Delete", "bool", FALSE),
     F("hide", "attr", "Hide", "bool", FALSE) >>

Schema(c) ==
  CASE c = "Sup" -> << F("text", "text", "", "str", TRUE) >>
    [] c = "Sub" -> << F("text", "text", "", "str", TRUE) >>
    [] c = "Ruby" ->
         << F("rt", "elemtexts", "Rt", "str", TRUE),
            F("text", "text", "", "str", TRUE) >>
    [] c = "Fig" -> << F("src", "attr", "src", "str", TRUE) >>
    [] c = "ArithFormula" ->
         << F("num", "attr", "Num", "nonneg", FALSE),
            F("figs", "children", "Fig", "Fig", FALSE) >>
    [] c = "ListSentence" ->
         << F("sentence_raw", "raws", "Sentence", "", FALSE),
            F("columns", "children", "Column", "Column", FALSE) >>
    [] c = "Sublist1Sentence" ->
         << F("sentence_raw", "raws", "Sentence", "", FALSE),
            F("columns", "children", "Column", "Column", FALSE) >>
    [] c = "Sublist1" ->
         << F("sublist1_sentence", "child", "Sublist1Sentence", "Sublist1Sentence", TRUE) >>
    [] c = "List" ->
         << F("list_sentence", "child", "ListSentence", "ListSentence", TRUE),
            F("sublists1", "children", "Sublist1", "Sublist1", FALSE) >>
    [] c = "FigStruct" ->
         << F("fig_struct_title_raw", "raw", "FigStructTitle", "", FALSE),
            F("fig", "child", "Fig", "Fig", TRUE) >>
    [] c = "TableRow" ->
         << F("table_columns", "children", "TableColumn", "TableColumn", TRUE) >>
    [] c = "TableColumn" ->
         << F("sentence_raw", "raws", "Sentence", "", FALSE),
            F("valign", "attr", "Valign", "Valign", FALSE),
            F("subitems1", "children", "Subitem1", "Subitem1", FALSE),
            F("columns", "children", "Column", "Column", FALSE) >>
    [] c = "Table" ->
         << F("writing_mode", "attr", "WritingMode", "WritingMode", FALSE),
            F("table_rows", "children", "TableRow", "TableRow", TRUE) >>
    [] c = "TableStruct" ->
         << F("table_struct_title_raw", "raw", "TableStructTitle", "", FALSE),
            F("table", "child", "Table", "Table", TRUE) >>
    [] c = "Column" ->
         << F("sentence_raw", "raws", "Sentence", "", FALSE),
            F("num", "attr", "Num", "nonneg", FALSE),
            F("line_break", "attr", "line_break", "bool", FALSE),
            F("align", "attr", "align", "Align", FALSE) >>
    [] c = "ItemSentence" ->
         << F("sentence_raw", "raws", "Sentence", "", FALSE),
            F("columns", "children", "Column", "Column", FALSE) >>
    [] c = "Subitem1Sentence" ->
         << F("sentence_raw", "raws", "Sentence", "", FALSE),
            F("columns", "children", "Column", "Column", FALSE) >>
    [] c = "Subitem2Sentence" ->
         << F("sentence_raw", "raws", "Sentence", "", FALSE),
            F("columns", "children", "Column", "Column", FALSE) >>
    [] c = "Subitem2" ->
         << F("subitem2_title_raw", "raw", "Subitem2Title", "", FALSE) >>
         \o NumDeleteHide \o
         << F("subitem2_sentence", "child", "Subitem2Sentence", "Subitem2Sentence", TRUE) >>
    [] c = "Subitem1" ->
         << F("subitem1_title_raw", "raw", "Subitem1Title", "", FALSE) >>
         \o NumDeleteHide \o
         << F("subitem1_sentence", "child", "Subitem1Sentence", "Subitem1Sentence", TRUE),
            F("subitems2", "children", "Subitem2", "Subitem2", FALSE) >>
    [] c = "Item" ->
         << F("item_title_raw", "raw", "ItemTitle", "", FALSE) >>
         \o NumDeleteHide \o
         << F("item_sentence", "child", "ItemSentence", "ItemSentence", TRUE),
            F("subitems", "children", "Subitem1", "Subitem1", FALSE) >>
    [] c = "ParagraphSentence" ->
         << F("sentence_raw", "raws", "Sentence", "", FALSE) >>
    [] c = "Paragraph" ->
         << F("paragraph_caption_raw", "raw", "ParagraphCaption", "", FALSE),
            F("paragraph_num_raw", "raw", "ParagraphNum", "", FALSE),
            F("num", "attr", "Num", "nonneg", TRUE),
            F("old_style", "attr", "OldStyle", "bool", FALSE),
            F("old_num", "attr", "OldNum", "bool", FALSE),
            F("hide", "attr", "Hide", "bool", FALSE),
            F("paragraph_sentence", "child", "ParagraphSentence", "ParagraphSentence", TRUE),
            F("items", "children", "Item", "Item", FALSE) >>
    [] c = "Article" ->
         << F("article_caption_raw", "raw", "ArticleCaption", "", FALSE),
            F("article_title_raw", "raw", "ArticleTitle", "", FALSE),
            F("suppl_note_raw", "raw", "SupplNote", "", FALSE) >>
         \o NumDeleteHide \o
         << F("paragraphs", "children", "Paragraph", "Paragraph", TRUE) >>
    [] c = "Part" ->
         << F("part_title_raw", "raw", "PartTitle", "", FALSE) >>
         \o NumDeleteHide \o
         << F("articles", "children", "Article", "Article", FALSE) >>
    [] c = "MainProvision" ->
         << F("extract", "attr", "Extract", "bool", FALSE),
            F("parts", "children", "Part", "Part", FALSE),
            F("articles", "children", "Article", "Article", FALSE),
            F("paragraphs", "children", "Paragraph", "Paragraph", FALSE) >>
    [] c = "TOCDivision" ->
         << F("article_range_raw", "raw", "ArticleRange", "", FALSE),
            F("division_title_raw", "raw", "DivisionTitle", "", FALSE) >>
    [] c = "TOCSubsection" ->
         << F("article_range_raw", "raw", "ArticleRange", "", FALSE),
            F("subsection_title_raw", "raw", "SubsectionTitle", "", FALSE),
            F("num", "attr", "Num", "str", TRUE),
            F("delete", "attr", "Delete", "bool", FALSE) >>
    [] c = "TOCSection" ->
         << F("article_range_raw", "raw", "ArticleRange", "", FALSE),
            F("section_title_raw", "raw", "SectionTitle", "", FALSE),
            F("num", "attr", "Num", "str", TRUE),
            F("delete", "attr", "Delete", "bool", FALSE) >>
    [] c = "TOCChapter" ->
         << F("article_range_raw", "raw", "ArticleRange", "", FALSE),
            F("chapter_title_raw", "raw", "ChapterTitle", "", FALSE),
            F("num", "attr", "Num", "str", TRUE),
            F("delete", "attr", "Delete", "bool", FALSE) >>
    [] c = "TOCSupplProvision" ->
         << F("article_range_raw", "raw", "ArticleRange", "", FALSE),
            F("suppl_provision_label_raw", "raw", "SupplProvisionLabel", "", FALSE) >>
    [] c = "TOC" ->
         << F("toc_label", "elemtext", "TOCLabel", "str", FALSE) >>
    [] c = "Preamble" ->
         << F("paragraphs", "children", "Paragraph", "Paragraph", TRUE) >>
    [] c = "SupplProvision" ->
         << F("suppl_provision_label_raw", "raw", "SupplProvisionLabel", "", FALSE),
            F("type", "attr", "Type", "SupplProvisionType", FALSE),
            F("amend_law_num", "attr", "AmendLawNum", "str", FALSE),
            F("extract", "attr", "Extract", "bool", FALSE),
            F("articles", "children", "Article", "Article", FALSE),
            F("paragraphs", "children", "Paragraph", "Paragraph", FALSE) >>
    [] c = "AppdxNote" ->
         << F("appdx_note_title_raw", "raw", "AppdxNoteTitle", "", FALSE),
            F("num", "attr", "Num", "str", FALSE) >>
    [] c = "AppdxTable" ->
         << F("appdx_table_title_raw", "raw", "AppdxTableTitle", "", FALSE),
            F("num", "attr", "Num", "str", FALSE),
            F("items", "children", "Item", "Item", FALSE) >>
    [] c = "LawBody" ->
         << F("law_title_raw", "raw", "LawTitle", "", FALSE),
            F("enact_statement_raw", "raw", "EnactStatement", "", FALSE),
            F("subject", "attr", "Subject", "str", FALSE),
            F("toc", "child", "TOC", "TOC", FALSE),
            F("preamble", "child", "Preamble", "Preamble", FALSE),
            F("main_provision", "child", "MainProvision", "MainProvision", TRUE),
            F("suppl_provisions", "children", "SupplProvision", "SupplProvision", FALSE),
            F("appdx_tables", "children", "AppdxTable", "AppdxTable", FALSE) >>
    [] c = "Law" ->
         << F("era", "attr", "Era", "str", TRUE),
            F("year", "attr", "Year", "pos", TRUE),
            F("num", "attr", "Num", "nonneg", TRUE),
            F("law_type", "attr", "LawType", "LawType", TRUE),
            F("lang", "attr", "Lang", "Lang", TRUE),
            F("promulgate_month", "attr", "PromulgateMonth", "pos", FALSE),
            F("promulgate_day", "attr", "PromulgateDay", "pos", FALSE),
            F("law_num", "elemtext", "LawNum", "str", TRUE),
            F("law_body", "child", "LawBody", "LawBody", TRUE) >>
    [] OTHER -> << >>

\* search_mode of the class: "unordered" where the class statement says so,
\* pydantic-xml's default "strict" elsewhere.
SearchMode(c) ==
  IF c \in {"TableColumn", "ItemSentence", "Subitem1Sentence", "Subitem1", "Item", "Paragraph",
            "Subitem2Sentence", "Subitem2",
            "Article", "Part", "MainProvision", "LawBody", "TOC", "SupplProvision",
            "AppdxTable", "AppdxNote", "TOCSubsection", "TOCSection", "TOCChapter",
            "TOCSupplProvision"}
  THEN "unordered"
  ELSE "strict"

EnumValues(ty) ==
  CASE ty = "LawType" -> LawTypeValues
    [] ty = "Lang" -> LangValues
    [] ty = "WritingMode" -> WritingModeValues
    [] ty = "Align" -> {"left", "center", "right", "justify"}
    [] ty = "SupplProvisionType" -> {"New", "Amend"}
    [] ty = "Valign" -> {"top", "middle", "bottom"}
    [] OTHER -> {}

BoolTrue == {"1", "on", "t", "true", "y", "yes"}

BoolFalse == {"0", "off", "f", "false", "n", "no"}

\* A validation that parses integers without checking their range.
ConvertUnranged(ty, raw) ==
  CASE ty = "str" -> Ok(raw)
    [] ty \in {"nonneg", "pos"} ->
         (IF IsOk(PyInt(raw)) THEN PyInt(raw) ELSE Raise(ValidationError))
    [] ty = "bool" ->
         (IF raw \in BoolTrue \cup BoolFalse THEN Ok(raw \in BoolTrue)
          ELSE Raise(ValidationError))
    [] OTHER ->
         (IF raw \in EnumValues(ty) THEN Ok(raw) ELSE Raise(ValidationError))

\* Validation of one raw attribute or text value against the declared type.
Convert(ty, raw) ==
  CASE ty = "str" -> Ok(raw)
    [] ty \in {"nonneg", "pos"} ->
         LET n == PyInt(raw)
         IN  IF IsOk(n) /\ n.val >= (IF ty = "pos" THEN 1 ELSE 0)
             THEN n
             ELSE Raise(ValidationError)
    [] ty = "bool" ->
         IF raw \in BoolTrue THEN Ok(TRUE)
         ELSE IF raw \in BoolFalse THEN Ok(FALSE)
         ELSE Raise(ValidationError)
    [] OTHER ->
         IF raw \in EnumValues(ty) THEN Ok(raw) ELSE Raise(ValidationError)

\* The cursor over an element's children: idx is the next position of a
\* strict search, used the children an unordered search has taken.
StartSearch == [idx |-> 1, used |-> {}]

SetMin(S) == CHOOSE m \in S : \A o \in S : m <= o

\* A search that looks only at the child at the cursor, whatever the mode.
FindAtCursor(mode, kids, tag, st) ==
  IF st.idx <= Len(kids) /\ kids[st.idx].tag = tag
  THEN [i |-> st.idx, st |-> [st EXCEPT !.idx = @ + 1]]
  ELSE [i |-> 0, st |-> st]

\* One search step: the index of the child found (0 if none) and the cursor
\* after it.
Find(mode, kids, tag, st) ==
  IF mode = "strict"
  THEN IF st.idx <= Len(kids) /\ kids[st.idx].tag = tag
       THEN [i |-> st.idx, st |-> [st EXCEPT !.idx = @ + 1]]
       ELSE [i |-> 0, st |-> st]
  ELSE LET cand == {i \in 1..Len(kids) : i \notin st.used /\ kids[i].tag = tag}
       IN  IF cand = {}
           THEN [i |-> 0, st |-> st]
           ELSE [i |-> SetMin(cand), st |-> [st EXCEPT !.used = @ \cup {SetMin(cand)}]]

RECURSIVE BindModel(_, _)
RECURSIVE BindFields(_, _, _)
RECURSIVE BindMany(_, _, _, _, _, _)

\* The value bound from one child k found for field f; the text of a child
\* element is optional, an element without text has none.
BindOne(f, k) ==
  CASE f.kind \in {"child", "children"} -> Present(BindModel(f.ty, k))
    [] f.kind \in {"raw", "raws"} -> Ok(Some(k))
    [] OTHER -> (IF k.text = None THEN Ok(None) ELSE Present(Convert(f.ty, k.text[1])))

\* The step after one child was bound: an exception or a child without a
\* value ends the search, a value is kept and the search goes on until max
\* values are there.
BindManyNext(mode, f, kids, acc, hit, max, one) ==
  IF ~IsOk(one) THEN [r |-> one, st |-> hit.st]
  ELSE IF one.val = None \/ Len(acc) + 1 = max
  THEN [r |-> Ok(acc \o one.val), st |-> hit.st]
  ELSE BindMany(mode, f, kids, acc \o one.val, Find(mode, kids, f.tag, hit.st), max)

\* The values of a field bound from children, hit being the search step
\* that leads to the next child: search and bind until the search finds no
\* further child.
BindMany(mode, f, kids, acc, hit, max) ==
  IF hit.i = 0
  THEN [r |-> Ok(acc), st |-> hit.st]
  ELSE BindManyNext(mode, f, kids, acc, hit, max, BindOne(f, kids[hit.i]))

\* The raw string of an attribute or text field, if the element has it.
RawValue(f, elm) ==
  IF f.kind = "text" THEN elm.text
  ELSE IF f.tag \in DOMAIN elm.attrs THEN Some(elm.attrs[f.tag])
  ELSE None

\* A list field that holds an empty list where no child was found.
FieldValueEmptyList(f, many) ==
  [st |-> many.st,
   r |-> IF ~IsOk(many.r) THEN many.r
         ELSE IF f.kind \in {"children", "raws", "elemtexts"}
         THEN Ok(Some(many.r.val))
         ELSE many.r]

\* A list field holds the values found, a list field that found none and a
\* single field that found none hold nothing, a single field holds the one
\* value found.
FieldValue(f, many) ==
  [st |-> many.st,
   r |-> IF ~IsOk(many.r) THEN many.r
         ELSE IF f.kind \in {"children", "raws", "elemtexts"} /\ many.r.val # << >>
         THEN Ok(Some(many.r.val))
         ELSE many.r]

\* One declared field: an optional value and the cursor after it.
BindField(mode, f, elm, st) ==
  IF f.kind \in {"attr", "text"}
  THEN [st |-> st,
        r |-> IF RawValue(f, elm) = None THEN Ok(None)
              ELSE Present(Convert(f.ty, RawValue(f, elm)[1]))]
  ELSE FieldValue(f, BindMany(mode, f, elm.kids, << >>, Find(mode, elm.kids, f.tag, st),
                              IF f.kind \in {"children", "raws", "elemtexts"}
                              THEN Len(elm.kids) + 1 ELSE 1))

\* The record acc with field f bound as b: a required field that was not
\* found, or any value that fails validation, fails the whole model.  A
\* field with a default keeps its optional value; a required one is stored
\* bare.
BindAdd(f, acc, b) ==
  [st |-> b.st,
   r |-> IF ~IsOk(b.r) THEN b.r
         ELSE IF f.req /\ b.r.val = None THEN Raise(ValidationError)
         ELSE Ok(acc @@ (f.name :> IF f.req THEN b.r.val[1] ELSE b.r.val))]

\* Field f after the fields before it: nothing more is bound once a field
\* has failed.
BindRest(c, elm, f, before) ==
  IF ~IsOk(before.r) THEN before
  ELSE BindAdd(f, before.r.val, BindField(SearchMode(c), f, elm, before.st))

\* The first n fields of class c in declaration order: the record bound so
\* far (or the failure) and the cursor after them.
BindFields(c, elm, n) ==
  IF n = 0 THEN [st |-> StartSearch, r |-> Ok("type" :> c)]
  ELSE BindRest(c, elm, Schema(c)[n], BindFields(c, elm, n - 1))

\* Cls.from_xml_tree(root=elm)
BindModel(c, elm) == BindFields(c, elm, Len(Schema(c))).r

----------------------------------------------------------------------------
(* Mixed-content resolution *)

\* Text(text=...)
TextNode(s) == [type |-> "Text", text |-> s]

\* Cls(raw_element=elm): a node that keeps the element and derives its
\* content on access.
RawNode(c, elm) == [type |-> c, raw_element |-> elm]

\* The tags the if/elif chain of Sentence.contents takes: raw those it
\* wraps as Cls(raw_element=elm), model those it binds by from_xml_tree.
SentenceTags ==
  [raw |-> {"Line", "QuoteStruct"}, model |-> {"ArithFormula", "Ruby", "Sup", "Sub"}]

\* ... of Line.contents
LineTags ==
  [raw |-> {"QuoteStruct"}, model |-> {"ArithFormula", "Ruby", "Sup", "Sub"}]

\* A chain for TaggedText that names QuoteStruct as well.
TaggedTextTagsWithQuoteStruct ==
  [raw |-> {"Line", "QuoteStruct"}, model |-> {"Ruby", "Sup", "Sub"}]

\* ... of TaggedText.tagged_text
TaggedTextTags == [raw |-> {"Line"}, model |-> {"Ruby", "Sup", "Sub"}]

\* A chain for QuoteStruct that does not name Fig.
QuoteStructTagsWithoutFig ==
  [raw |-> {"Sentence"},
   model |-> {"List", "FigStruct", "Table", "TableStruct", "ArithFormula"}]

\* ... of QuoteStruct.contents
QuoteStructTags ==
  [raw |-> {"Sentence"},
   model |-> {"List", "Fig", "FigStruct", "Table", "TableStruct", "ArithFormula"}]

Tags(ctx) ==
  CASE ctx = "Sentence" -> SentenceTags
    [] ctx = "Line" -> LineTags
    [] ctx = "QuoteStruct" -> QuoteStructTags
    [] OTHER -> TaggedTextTags

\* A dispatch that lets an unknown tag through as an item of its own tag.
ChildLenient(ctx, elm) ==
  IF elm.tag \in Tags(ctx).model THEN BindModel(elm.tag, elm)
  ELSE Ok(RawNode(elm.tag, elm))

\* The if/elif chain of the resolver named ctx: the item one child element
\* becomes, NotImplementedError for a tag the chain does not name.
Child(ctx, elm) ==
  IF elm.tag \in Tags(ctx).raw THEN Ok(RawNode(elm.tag, elm))
  ELSE IF elm.tag \in Tags(ctx).model THEN BindModel(elm.tag, elm)
  ELSE Raise(NotImplementedError)

\* "# Head text": the list the loop starts from.
HeadText(element) ==
  IF element.text # None THEN << TextNode(element.text[1]) >> ELSE << >>

\* A tail step that reads the child's own text in place of its tail.
TailTextFromText(elm) ==
  IF elm.text # None THEN << TextNode(elm.text[1]) >> ELSE << >>

\* "# Tail text": what one child appends after its own item.
TailText(elm) ==
  IF elm.tail # None THEN << TextNode(elm.tail[1]) >> ELSE << >>

RECURSIVE ResolveFrom(_, _, _, _)

\* A pass that appends a node over the element itself in place of the item.
ResolveNextSelf(ctx, element, i, contents, item) ==
  IF ~IsOk(item) THEN item
  ELSE ResolveFrom(ctx, element, i + 1,
                   contents \o << RawNode(element.tag, element) >> \o TailText(element.kids[i]))

\* The rest of one pass of the loop, item being what child i became: an
\* exception leaves the loop at once.
ResolveNext(ctx, element, i, contents, item) ==
  IF ~IsOk(item) THEN item
  ELSE ResolveFrom(ctx, element, i + 1,
                   contents \o << item.val >> \o TailText(element.kids[i]))

\* The body of "for elm in element.iterchildren()" from child i on, with
\* the list built so far.
ResolveFrom(ctx, element, i, contents) ==
  IF i > Len(element.kids) THEN Ok(contents)
  ELSE ResolveNext(ctx, element, i, contents, Child(ctx, element.kids[i]))

\* The resolver of context ctx over element.
Resolve(ctx, element) == ResolveFrom(ctx, element, 1, HeadText(element))

\* Sentence.contents
SentenceContents(element) == Resolve("Sentence", element)

\* Line.contents
LineContents(element) == Resolve("Line", element)

\* QuoteStruct.contents
QuoteStructContents(element) == Resolve("QuoteStruct", element)

\* TaggedText.tagged_text
TaggedTextTaggedText(element) == Resolve("TaggedText", element)

\* The item kinds that have a text attribute (hasattr(content, "text")).
TextBearing ==
  {"Text", "Ruby", "Sup", "Sub", "ArithFormula", "Line", "QuoteStruct", "Sentence"}

AttributeError == "AttributeError"

RECURSIVE NodeText(_, _)
RECURSIVE JoinTexts(_, _, _, _)

\* An item text that renders an ArithFormula as a placeholder.
ItemTextWithFormula(content) ==
  CASE content.type \in {"Text", "Ruby", "Sup", "Sub"} -> Ok(content.text)
    [] content.type = "ArithFormula" -> Ok("=")
    [] content.type \in {"Line", "QuoteStruct", "Sentence"} ->
         NodeText(content.type, content.raw_element)
    [] OTHER -> Raise(AttributeError)

\* An item text that is empty for an item without a text attribute.
ItemTextLenient(content) ==
  CASE content.type \in {"Text", "Ruby", "Sup", "Sub"} -> Ok(content.text)
    [] content.type \in {"Line", "QuoteStruct", "Sentence"} ->
         NodeText(content.type, content.raw_element)
    [] OTHER -> Ok("")

\* content.text for one item of a content sequence.
ItemText(content) ==
  CASE content.type \in {"Text", "Ruby", "Sup", "Sub"} -> Ok(content.text)
    [] content.type = "ArithFormula" -> Ok("")
    [] content.type \in {"Line", "QuoteStruct", "Sentence"} ->
         NodeText(content.type, content.raw_element)
    [] OTHER -> Raise(AttributeError)

\* The rest of one pass of the loop, t being what item i adds to the text.
JoinNext(contents, i, text, guarded, t) ==
  IF ~IsOk(t) THEN t ELSE JoinTexts(contents, i + 1, text \o t.val, guarded)

\* "for content in self.contents: text += content.text" from item i on;
\* guarded is TRUE for the loop that tests hasattr(content, "text") first
\* and so adds nothing for an item without one.
JoinTexts(contents, i, text, guarded) ==
  IF i > Len(contents) THEN Ok(text)
  ELSE JoinNext(contents, i, text, guarded,
                IF guarded /\ contents[i].type \notin TextBearing
                THEN Ok("")
                ELSE ItemText(contents[i]))

\* The text property over the outcome of self.contents.
JoinContents(contents, guarded) ==
  IF ~IsOk(contents) THEN contents ELSE JoinTexts(contents.val, 1, "", guarded)

\* The text property of a node of class c that derives its content
\* sequence; only QuoteStruct.text guards the loop.
NodeText(c, element) == JoinContents(Resolve(c, element), c = "QuoteStruct")

\* Sentence.text
SentenceText(element) == NodeText("Sentence", element)

\* Line.text
LineText(element) == NodeText("Line", element)

\* QuoteStruct.text
QuoteStructText(element) == NodeText("QuoteStruct", element)

\* The text field of a model that was built; an exception stays.
TextOf(m) == IF IsOk(m) THEN Ok(m.val.text) ELSE m

\* A child text that takes only the head text of a Line.
TaggedTextChildTextShallow(elm) ==
  CASE elm.tag \in {"Ruby", "Sup", "Sub"} -> TextOf(BindModel(elm.tag, elm))
    [] elm.tag = "Line" -> Ok(IF elm.text # None THEN elm.text[1] ELSE "")
    [] OTHER -> Raise(NotImplementedError)

\* The if/elif chain of TaggedText.text: the text one child contributes.
TaggedTextChildText(elm) ==
  CASE elm.tag \in {"Ruby", "Sup", "Sub"} -> TextOf(BindModel(elm.tag, elm))
    [] elm.tag = "Line" -> LineText(elm)
    [] OTHER -> Raise(NotImplementedError)

RECURSIVE TaggedTextTextFrom(_, _, _)

\* The rest of one pass of the loop, t being the text child i contributes.
TaggedTextTextNext(element, i, text, t) ==
  IF ~IsOk(t) THEN t
  ELSE TaggedTextTextFrom(element, i + 1,
         (text \o t.val) \o
         (IF element.kids[i].tail # None THEN element.kids[i].tail[1] ELSE ""))

\* The loop of TaggedText.text from child i on.
TaggedTextTextFrom(element, i, text) ==
  IF i > Len(element.kids) THEN Ok(text)
  ELSE TaggedTextTextNext(element, i, text, TaggedTextChildText(element.kids[i]))

\* TaggedText.text
TaggedTextText(element) ==
  TaggedTextTextFrom(element, 1, IF element.text # None THEN element.text[1] ELSE "")

----------------------------------------------------------------------------
(* Source documents *)

\* The most elements a generated document holds below its root.
MaxNodes == 2

\* The child tags a document offers below a parent: tags the parent's
\* resolver accepts, and one it does not.
KidTags(parent) ==
  CASE parent = "Sentence" -> {"Sup", "Line", "QuoteStruct", "ArithFormula", "Item"}
    [] parent = "Line" -> {"Sup", "QuoteStruct", "ArithFormula", "Line"}
    [] parent = "QuoteStruct" -> {"Sentence", "Fig", "ArithFormula", "Item"}
    [] parent = "ArithFormula" -> {"Fig"}
    [] parent = "ArticleTitle" -> {"Sup", "Line", "QuoteStruct"}
    [] OTHER -> {}

AttrChoices(tag) ==
  CASE tag = "Fig" -> {NoAttrs, "src" :> "a.jpg"}
    [] OTHER -> {NoAttrs}

TextChoices(tag, label) ==
  IF tag \in {"Fig", "ArithFormula", "Item"} THEN {None} ELSE {None, Some("h" \o label)}

\* The sequences of sibling elements of at most n elements in all (their
\* descendants included) below a parent of the given tag; each element's
\* texts are labelled by its position, so no two strings of a document are
\* equal.
RECURSIVE Forest(_, _, _, _)

\* The elements of tag t and at most k elements in all, at position i.
Trees(t, k, label, i) ==
  { Elem(t, a, tx, tl, ks) :
      a \in AttrChoices(t),
      tx \in TextChoices(t, label \o ToString(i)),
      tl \in {None, Some("t" \o label \o ToString(i))},
      ks \in Forest(t, k - 1, label \o ToString(i), 1) }

Forest(parent, n, label, i) ==
  IF n = 0 THEN {<< >>}
  ELSE {<< >>} \cup UNION {
         UNION { { << e >> \o rest :
                     e \in Trees(t, k, label, i),
                     rest \in Forest(parent, n - k, label, i + 1) } :
                 t \in KidTags(parent) } : k \in 1..n }

\* The classes whose content the resolvers derive, each bound to an element
\* of its own tag.
ContentClasses == {"Sentence", "Line", "QuoteStruct", "ArticleTitle"}

\* <Sentence>AAA<QuoteStruct><Sentence><QuoteStruct><Fig src="url" />
\* </QuoteStruct></Sentence></QuoteStruct> BBB</Sentence>
ExampleNested ==
  Elem("Sentence", NoAttrs, Some("AAA"), None,
       << Elem("QuoteStruct", NoAttrs, None, Some(" BBB"),
               << Elem("Sentence", NoAttrs, None, None,
                       << Elem("QuoteStruct", NoAttrs, None, None,
                               << Elem("Fig", "src" :> "url", None, None, << >>) >>) >>) >>) >>)

ContentDocs(c) ==
  { Elem(c, NoAttrs, tx, None, ks) :
      tx \in {None, Some("h")}, ks \in Forest(c, MaxNodes, "", 1) }
  \cup (IF c = "Sentence" THEN {ExampleNested} ELSE {})

----------------------------------------------------------------------------
(* Accessors of a node and their memoization (functools.cached_property) *)

Accessors == {"contents", "tagged_text", "text"}

EmptyCache == [a \in Accessors |-> None]

\* Whether a read of acc is served from the store.
CacheHit(cch, acc) == cch[acc] # None

\* A lookup in which tagged_text shares the slot of contents.
CacheGetAliased(cch, acc, fresh) ==
  LET slot == IF acc = "tagged_text" THEN "contents" ELSE acc
  IN  IF cch[slot] # None THEN Ok(cch[slot][1]) ELSE fresh

\* cached_property.__get__: the stored value if there is one, else the
\* outcome of the wrapped function.
CacheGet(cch, acc, fresh) == IF cch[acc] # None THEN Ok(cch[acc][1]) ELSE fresh

\* ... and the store after a normal return; an exception stores nothing.
CachePut(cch, acc, res) ==
  IF IsOk(res) /\ cch[acc] = None THEN [cch EXCEPT ![acc] = Some(res.val)] ELSE cch

HasContents(c) == c \in {"Sentence", "Line", "QuoteStruct"}

HasTaggedText(c) == c \notin {"Line", "QuoteStruct"}

\* The body of the class's contents property.
ContentsBody(c, element) == Resolve(c, element)

\* A text body in which Sentence keeps the text it inherits from TaggedText.
TextBodyInherited(c, element, contents) ==
  IF c \in {"Line", "QuoteStruct"}
  THEN JoinContents(contents, c = "QuoteStruct")
  ELSE TaggedTextText(element)

\* The body of the class's text property, given the outcome of the
\* self.contents it reads (Sentence, Line, QuoteStruct); TaggedText.text
\* walks the raw element instead.
TextBody(c, element, contents) ==
  IF HasContents(c)
  THEN JoinContents(contents, c = "QuoteStruct")
  ELSE TaggedTextText(element)

\* The latest outcome of each accessor read so far (None: not read yet);
\* served tells whether the latest read was served from the store.
NoReads == [a \in Accessors |-> None]

InitContent ==
  /\ cls \in ContentClasses
  /\ root \in ContentDocs(cls)
  /\ node = Ok(RawNode(cls, root))
  /\ cache = EmptyCache
  /\ last = NoReads
  /\ served = FALSE

\* One read of accessor acc with outcome res, over the store filled: a
\* normal return is stored, and the outcome is what the caller sees.
Serve(filled, acc, res) ==
  /\ cache' = CachePut(filled, acc, res)
  /\ last' = [last EXCEPT ![acc] = Some(res)]
  /\ served' = CacheHit(cache, acc)
  /\ UNCHANGED <<root, cls, node>>

\* node.contents
ReadContents ==
  /\ HasContents(cls)
  /\ Serve(cache, "contents", CacheGet(cache, "contents", ContentsBody(cls, root)))

\* node.tagged_text
ReadTaggedText ==
  /\ HasTaggedText(cls)
  /\ Serve(cache, "tagged_text", CacheGet(cache, "tagged_text", TaggedTextTaggedText(root)))

\* The outcome of the self.contents that the body of text reads (classes
\* without contents read none).
SelfContents ==
  IF HasContents(cls)
  THEN CacheGet(cache, "contents", ContentsBody(cls, root))
  ELSE Ok(<< >>)

\* node.text: the body runs only when text is not stored yet, and its read
\* of contents fills the store of contents.
ReadText ==
  /\ cls \in ContentClasses
  /\ Serve(IF HasContents(cls) /\ cache["text"] = None
           THEN CachePut(cache, "contents", SelfContents)
           ELSE cache,
           "text", CacheGet(cache, "text", TextBody(cls, root, SelfContents)))

NextContent == ReadContents \/ ReadTaggedText \/ ReadText

SpecContent == InitContent /\ [][NextContent]_vars

----------------------------------------------------------------------------
(* Attribute accessors of Sentence, Line, LawTitle and Law *)

\* The optional values over a set.
Opt(S) == {None} \cup {Some(v) : v \in S}

\* attrs with name set to the optional raw value v.
WithAttr(attrs, name, v) == IF v = None THEN attrs ELSE (name :> v[1]) @@ attrs

NumChoices == {"0", "1", "12", "-1", "abc", ""}

FunctionChoices == FunctionValues \cup {"Main"}

IndentChoices == IndentValues \cup {"Subitem11"}

WritingModeChoices == WritingModeValues \cup {"diagonal"}

StyleChoices == StyleValues \cup {"thick", ""}

LawTypeChoices == LawTypeValues \cup {"Treaty", ""}

SentenceAttrDocs ==
  { Elem("Sentence",
         WithAttr(WithAttr(WithAttr(WithAttr(NoAttrs, "Num", n), "Function", f),
                           "Indent", i), "WritingMode", w),
         Some("x"), None, << >>) :
      n \in Opt(NumChoices), f \in Opt(FunctionChoices),
      i \in Opt(IndentChoices), w \in Opt(WritingModeChoices) }

LineAttrDocs ==
  { Elem("Line", WithAttr(NoAttrs, "Style", st), Some("x"), None, << >>) :
      st \in Opt(StyleChoices) }

LawTitleAttrDocs ==
  { Elem("LawTitle",
         WithAttr(WithAttr(WithAttr(NoAttrs, "Kana", k), "Abbrev", a), "AbbrevKana", ak),
         Some("x"), None, << >>) :
      k \in Opt({"k", ""}), a \in Opt({"a", ""}), ak \in Opt({"ak", ""}) }

\* <MainProvision/> inside <LawBody>: the least body a Law accepts.
EmptyLawBody ==
  Elem("LawBody", NoAttrs, None, None,
       << Elem("MainProvision", NoAttrs, None, None, << >>) >>)

LawNumElem == Elem("LawNum", NoAttrs, Some("n1"), None, << >>)

LawIdentity == ("Era" :> "Reiwa") @@ ("Year" :> "3") @@ ("Num" :> "1") @@ ("Lang" :> "ja")

LawAttrDocs ==
  { Elem("Law", WithAttr(LawIdentity, "LawType", t), None, None,
         << LawNumElem, EmptyLawBody >>) :
      t \in Opt(LawTypeChoices) }

AttrClasses == {"Sentence", "Line", "LawTitle", "Law"}

AttrDocs(c) ==
  CASE c = "Sentence" -> SentenceAttrDocs
    [] c = "Line" -> LineAttrDocs
    [] c = "LawTitle" -> LawTitleAttrDocs
    [] OTHER -> LawAttrDocs

AttrAccessors ==
  {"num", "function", "indent", "writing_mode", "style", "kana", "abbrev",
   "abbrev_kana", "law_type"}

\* Cls(raw_element=elm) for the classes that keep the element, from_xml_tree
\* for Law.
Construct(c, elm) == IF c = "Law" THEN BindModel("Law", elm) ELSE Ok(RawNode(c, elm))

InitAttr ==
  /\ cls \in AttrClasses
  /\ root \in AttrDocs(cls)
  /\ node = Construct(cls, root)
  /\ cache = EmptyCache
  /\ last = [a \in AttrAccessors |-> None]
  /\ served = FALSE

\* The state after reading accessor acc with outcome res.
Read(acc, res) ==
  /\ last' = [last EXCEPT ![acc] = Some(res)]
  /\ UNCHANGED <<root, cls, node, cache, served>>

\* sentence.num
ReadNum == cls = "Sentence" /\ Read("num", SentenceNum(root))

\* sentence.function
ReadFunction == cls = "Sentence" /\ Read("function", SentenceFunction(root))

\* sentence.indent
ReadIndent == cls = "Sentence" /\ Read("indent", SentenceIndent(root))

\* sentence.writing_mode
ReadWritingMode == cls = "Sentence" /\ Read("writing_mode", WritingMode(root))

\* line.style
ReadStyle == cls = "Line" /\ Read("style", LineStyle(root))

\* law_title.kana
ReadKana == cls = "LawTitle" /\ Read("kana", Ok(LawTitleAttr(root, "Kana")))

\* law_title.abbrev
ReadAbbrev == cls = "LawTitle" /\ Read("abbrev", Ok(LawTitleAttr(root, "Abbrev")))

\* law_title.abbrev_kana
ReadAbbrevKana == cls = "LawTitle" /\ Read("abbrev_kana", Ok(LawTitleAttr(root, "AbbrevKana")))

\* law.law_type, on a Law that was constructed
ReadLawType == cls = "Law" /\ IsOk(node) /\ Read("law_type", Ok(Some(node.val.law_type)))

NextAttr ==
  \/ ReadNum
  \/ ReadFunction
  \/ ReadIndent
  \/ ReadWritingMode
  \/ ReadStyle
  \/ ReadKana
  \/ ReadAbbrev
  \/ ReadAbbrevKana
  \/ ReadLawType

SpecAttr == InitAttr /\ [][NextAttr]_vars

----------------------------------------------------------------------------
(* Construction of Law, LawBody and Article *)

\* The most Article elements a generated MainProvision holds.
MaxArticles == 1

SentenceElem(t) == Elem("Sentence", NoAttrs, Some(t), None, << >>)

ParagraphDocs ==
  { Elem("Paragraph", "Num" :> "1", None, None,
         << Elem("ParagraphNum", NoAttrs, None, None, << >>) >> \o ps) :
      ps \in { << >>,
               << Elem("ParagraphSentence", NoAttrs, None, None,
                       << SentenceElem("p") >>) >> } }

ArticleDocs ==
  { Elem("Article", WithAttr(NoAttrs, "Num", n), None, None, title \o paragraphs) :
      n \in Opt({"1"}),
      title \in { << >>, << Elem("ArticleTitle", NoAttrs, Some("t"), None, << >>) >> },
      paragraphs \in {<< >>} \cup {<< p >> : p \in ParagraphDocs} }

\* The sequences of at most n Article elements.
RECURSIVE ArticleSeqs(_)
ArticleSeqs(n) ==
  IF n = 0 THEN {<< >>}
  ELSE {<< >>} \cup {<< a >> \o rest : a \in ArticleDocs, rest \in ArticleSeqs(n - 1)}

MainProvisionDocs ==
  { Elem("MainProvision", NoAttrs, None, None, articles) :
      articles \in ArticleSeqs(MaxArticles) }

LawBodyDocs ==
  { Elem("LawBody", NoAttrs, None, None, title \o main) :
      title \in { << >>, << Elem("LawTitle", NoAttrs, Some("l"), None, << >>) >> },
      main \in {<< >>} \cup {<< m >> : m \in MainProvisionDocs} }

LawDocs ==
  { Elem("Law",
         WithAttr(WithAttr(("LawType" :> "Act") @@ LawIdentity, "PromulgateMonth", m),
                  "PromulgateDay", d),
         None, None, num \o body) :
      m \in Opt({"4", "0", "x"}), d \in Opt({"1", "0"}),
      num \in {<< >>, << LawNumElem >>},
      body \in {<< >>} \cup {<< b >> : b \in LawBodyDocs} }

LawClasses == {"Law", "LawBody", "Article"}

ConstructionDocs(c) ==
  CASE c = "Law" -> LawDocs
    [] c = "LawBody" -> LawBodyDocs
    [] OTHER -> ArticleDocs

LawAccessors == {"article_title", "promulgate_month", "promulgate_day", "main_provision"}

\* Cls.from_xml_tree(root): the node, or the validation error.
InitLaw ==
  /\ cls \in LawClasses
  /\ root \in ConstructionDocs(cls)
  /\ node = BindModel(cls, root)
  /\ cache = EmptyCache
  /\ last = [a \in LawAccessors |-> None]
  /\ served = FALSE

\* WithArticleTitle.article_title: ArticleTitle(raw_element=...) validates
\* that it is given an element.
ArticleTitleOf(article) ==
  IF article.article_title_raw = None
  THEN Raise(ValidationError)
  ELSE Ok(RawNode("ArticleTitle", article.article_title_raw[1]))

\* article.article_title
ReadArticleTitle ==
  cls = "Article" /\ IsOk(node) /\ Read("article_title", ArticleTitleOf(node.val))

\* law.promulgate_month
ReadPromulgateMonth ==
  cls = "Law" /\ IsOk(node) /\ Read("promulgate_month", Ok(node.val.promulgate_month))

\* law.promulgate_day
ReadPromulgateDay ==
  cls = "Law" /\ IsOk(node) /\ Read("promulgate_day", Ok(node.val.promulgate_day))

\* law_body.main_provision
ReadMainProvision ==
  cls = "LawBody" /\ IsOk(node) /\ Read("main_provision", Ok(node.val.main_provision))

NextLaw ==
  \/ ReadArticleTitle
  \/ ReadPromulgateMonth
  \/ ReadPromulgateDay
  \/ ReadMainProvision

SpecLaw == InitLaw /\ [][NextLaw]_vars

----------------------------------------------------------------------------
(* texts(): the text strings of a structural node, in document order *)

\* "yield": one string, or the exception raised while producing it.
Yield(r) == IF IsOk(r) THEN Ok(<< r.val >>) ELSE r

\* Two stretches of one generator: what the first yields, then what the
\* second yields; an exception ends the generator where it is raised.
Then(a, b) == IF ~IsOk(a) THEN a ELSE IF ~IsOk(b) THEN b ELSE Ok(a.val \o b.val)

\* WithSentences.sentences
Sentences(m) ==
  IF m.sentence_raw = None THEN None
  ELSE Some([i \in 1..Len(m.sentence_raw[1]) |-> RawNode("Sentence", m.sentence_raw[1][i])])

\* "for sentence in self.sentences: yield sentence.text", from sentence i on.
RECURSIVE SentenceTexts(_, _)
SentenceTexts(sentences, i) ==
  IF i > Len(sentences) THEN Ok(<< >>)
  ELSE Then(Yield(SentenceText(sentences[i].raw_element)), SentenceTexts(sentences, i + 1))

\* Column.texts
ColumnTexts(column) ==
  IF Sentences(column) # None THEN SentenceTexts(Sentences(column)[1], 1) ELSE Ok(<< >>)

\* "for column in self.columns: for text in column.texts(): yield text"
RECURSIVE ColumnsTexts(_, _)
ColumnsTexts(columns, i) ==
  IF i > Len(columns) THEN Ok(<< >>)
  ELSE Then(ColumnTexts(columns[i]), ColumnsTexts(columns, i + 1))

\* A sentence part that yields its columns before its sentences.
ItemSentenceTextsColumnsFirst(m) ==
  Then(IF m.columns # None THEN ColumnsTexts(m.columns[1], 1) ELSE Ok(<< >>),
       IF Sentences(m) # None THEN SentenceTexts(Sentences(m)[1], 1) ELSE Ok(<< >>))

\* ItemSentence.texts
ItemSentenceTexts(m) ==
  Then(IF Sentences(m) # None THEN SentenceTexts(Sentences(m)[1], 1) ELSE Ok(<< >>),
       IF m.columns # None THEN ColumnsTexts(m.columns[1], 1) ELSE Ok(<< >>))

\* Subitem1Sentence.texts
Subitem1SentenceTexts(m) ==
  Then(IF Sentences(m) # None THEN SentenceTexts(Sentences(m)[1], 1) ELSE Ok(<< >>),
       IF m.columns # None THEN ColumnsTexts(m.columns[1], 1) ELSE Ok(<< >>))

\* WithSubitem1Title.subitem1_title
Subitem1TitleOf(m) ==
  IF m.subitem1_title_raw = None THEN None
  ELSE Some(RawNode("Subitem1Title", m.subitem1_title_raw[1]))

\* WithItemTitle.item_title
ItemTitleOf(m) ==
  IF m.item_title_raw = None THEN None
  ELSE Some(RawNode("ItemTitle", m.item_title_raw[1]))

\* Subitem1.texts
Subitem1Texts(m) ==
  Then(IF Subitem1TitleOf(m) # None
       THEN Yield(TaggedTextText(Subitem1TitleOf(m)[1].raw_element))
       ELSE Ok(<< >>),
       Subitem1SentenceTexts(m.subitem1_sentence))

\* "for subitem in self.subitems: for text in subitem.texts(): yield text"
RECURSIVE SubitemsTexts(_, _)
SubitemsTexts(subitems, i) ==
  IF i > Len(subitems) THEN Ok(<< >>)
  ELSE Then(Subitem1Texts(subitems[i]), SubitemsTexts(subitems, i + 1))

\* Item.texts
ItemTexts(m) ==
  Then(IF ItemTitleOf(m) # None
       THEN Yield(TaggedTextText(ItemTitleOf(m)[1].raw_element))
       ELSE Ok(<< >>),
       Then(ItemSentenceTexts(m.item_sentence),
            IF m.subitems # None THEN SubitemsTexts(m.subitems[1], 1) ELSE Ok(<< >>)))

\* The most Sentence and Column elements a generated ItemSentence holds.
MaxParts == 2

\* The most Subitem1 elements a generated Item holds.
MaxSubitems == 1

\* The Sentence or Column elements offered at a position; texts are labelled
\* by kind and position.
PartChoices(label) ==
  { SentenceElem("s" \o label),
    Elem("Column", NoAttrs, None, None, << SentenceElem("c" \o label) >>),
    Elem("Column", NoAttrs, None, None, << >>) }

\* The sequences of at most n parts, mixing Sentence and Column in any order.
RECURSIVE Parts(_, _, _)
Parts(n, i, label) ==
  IF n = 0 THEN {<< >>}
  ELSE {<< >>} \cup
       { << e >> \o rest :
           e \in PartChoices(label \o ToString(i)), rest \in Parts(n - 1, i + 1, label) }

Subitem1Docs(j) ==
  { Elem("Subitem1", "Num" :> ToString(j), None, None,
         title \o << Elem("Subitem1Sentence", NoAttrs, None, None, parts) >>) :
      title \in { << >>,
                  << Elem("Subitem1Title", NoAttrs, Some("T" \o ToString(j)), None, << >>) >> },
      parts \in Parts(1, 1, "u" \o ToString(j)) }

\* The sequences of at most n Subitem1 elements, from position j on.
RECURSIVE Subitem1Seqs(_, _)
Subitem1Seqs(n, j) ==
  IF n = 0 THEN {<< >>}
  ELSE {<< >>} \cup
       { << e >> \o rest : e \in Subitem1Docs(j), rest \in Subitem1Seqs(n - 1, j + 1) }

ItemTitleElem == Elem("ItemTitle", NoAttrs, Some("T"), None, << >>)

\* <Item Num="1"><ItemTitle>Item title</ItemTitle><ItemSentence>
\* <Sentence Num="1">Item sentence</Sentence></ItemSentence></Item>
ExampleItem ==
  Elem("Item", "Num" :> "1", None, None,
       << Elem("ItemTitle", NoAttrs, Some("Item title"), None, << >>),
          Elem("ItemSentence", NoAttrs, None, None,
               << Elem("Sentence", "Num" :> "1", Some("Item sentence"), None, << >>) >>) >>)

\* Item elements: the title before or after the ItemSentence or missing, the
\* ItemSentence present or missing, then the Subitem1 elements.
ItemDocs ==
  {ExampleItem} \cup
  { Elem("Item", WithAttr(NoAttrs, "Num", n), None, None,
         ((before \o sentence) \o after) \o subitems) :
      n \in Opt({"1"}),
      before \in {<< >>, << ItemTitleElem >>},
      after \in {<< >>, << ItemTitleElem >>},
      sentence \in {<< >>} \cup
                   {<< Elem("ItemSentence", NoAttrs, None, None, parts) >> :
                      parts \in Parts(MaxParts, 1, "")},
      subitems \in Subitem1Seqs(MaxSubitems, 1) }

ItemAccessors == {"texts", "item_title"}

\* Item.from_xml_tree(root)
InitItem ==
  /\ cls = "Item"
  /\ root \in ItemDocs
  /\ node = BindModel("Item", root)
  /\ cache = EmptyCache
  /\ last = [a \in ItemAccessors |-> None]
  /\ served = FALSE

\* list(item.texts())
ReadTexts == IsOk(node) /\ Read("texts", ItemTexts(node.val))

\* item.item_title
ReadItemTitle == IsOk(node) /\ Read("item_title", Ok(ItemTitleOf(node.val)))

NextItem == ReadTexts \/ ReadItemTitle

SpecItem == InitItem /\ [][NextItem]_vars

----------------------------------------------------------------------------
(* texts() of Paragraph, Article, MainProvision, LawBody and Law *)

\* "if self.x is not None: yield self.x.text" for a title, caption, label
\* or statement kept as the raw element x_raw.
YieldText(raw) == IF raw = None THEN Ok(<< >>) ELSE Yield(TaggedTextText(raw[1]))

\* ParagraphSentence.texts
ParagraphSentenceTexts(m) ==
  IF Sentences(m) # None THEN SentenceTexts(Sentences(m)[1], 1) ELSE Ok(<< >>)

RECURSIVE Texts(_, _)

\* "for x in xs: for text in x.texts(): yield text" over nodes of one kind,
\* from node i on.
RECURSIVE EachTexts(_, _, _)
EachTexts(kind, nodes, i) ==
  IF i > Len(nodes) THEN Ok(<< >>)
  ELSE Then(Texts(kind, nodes[i]), EachTexts(kind, nodes, i + 1))

\* "if self.xs is not None: for x in self.xs: ..."
OptEachTexts(kind, nodes) ==
  IF nodes = None THEN Ok(<< >>) ELSE EachTexts(kind, nodes[1], 1)

\* Paragraph.texts
ParagraphTexts(m) ==
  Then(ParagraphSentenceTexts(m.paragraph_sentence), OptEachTexts("Item", m.items))

\* "article_title: ArticleTitle = self.article_title; yield
\* article_title.text"
ArticleTitleText(title) ==
  IF IsOk(title) THEN Yield(TaggedTextText(title.val.raw_element)) ELSE title

\* A traversal that yields the article title ahead of the caption.
ArticleTextsTitleFirst(m) ==
  Then(ArticleTitleText(ArticleTitleOf(m)),
       Then(YieldText(m.article_caption_raw),
            Then(EachTexts("Paragraph", m.paragraphs, 1), YieldText(m.suppl_note_raw))))

\* Article.texts
ArticleTexts(m) ==
  Then(YieldText(m.article_caption_raw),
       Then(ArticleTitleText(ArticleTitleOf(m)),
            Then(EachTexts("Paragraph", m.paragraphs, 1), YieldText(m.suppl_note_raw))))

\* Part.texts (no document here holds a Chapter)
PartTexts(m) ==
  Then(YieldText(m.part_title_raw), OptEachTexts("Article", m.articles))

\* MainProvision.texts (no document here holds a Chapter or Section)
MainProvisionTexts(m) ==
  Then(OptEachTexts("Part", m.parts),
       Then(OptEachTexts("Article", m.articles), OptEachTexts("Paragraph", m.paragraphs)))

\* A traversal that yields the enact statement ahead of the title.
LawBodyTextsEnactFirst(m) ==
  Then(YieldText(m.enact_statement_raw),
       Then(YieldText(m.law_title_raw), MainProvisionTexts(m.main_provision)))

\* LawBody.texts
LawBodyTexts(m) ==
  Then(YieldText(m.law_title_raw),
       Then(YieldText(m.enact_statement_raw), MainProvisionTexts(m.main_provision)))

\* Law.texts
LawTexts(m) == LawBodyTexts(m.law_body)

\* node.texts() of a node of the given class; a class that defines no texts
\* method has no such attribute.
Texts(kind, m) ==
  CASE kind = "Item" -> ItemTexts(m)
    [] kind = "Subitem1" -> Subitem1Texts(m)
    [] kind = "Paragraph" -> ParagraphTexts(m)
    [] kind = "Article" -> ArticleTexts(m)
    [] kind = "Part" -> PartTexts(m)
    [] kind = "MainProvision" -> MainProvisionTexts(m)
    [] kind = "LawBody" -> LawBodyTexts(m)
    [] kind = "Law" -> LawTexts(m)
    [] OTHER -> Raise(AttributeError)

\* An element of the given tag that holds the text t and nothing else.
TextElem(tag, t) == Elem(tag, NoAttrs, Some(t), None, << >>)

\* <Paragraph Num="1"> with a ParagraphSentence of one Sentence t.
ParagraphElem(t) ==
  Elem("Paragraph", "Num" :> "1", None, None,
       << Elem("ParagraphSentence", NoAttrs, None, None, << SentenceElem(t) >>) >>)

\* The Article elements offered at position j: caption, title and
\* supplementary note present or missing, one paragraph.
BodyArticleDocs(j) ==
  { Elem("Article", "Num" :> ToString(j), None, None,
         ((caption \o title) \o << ParagraphElem("p" \o ToString(j)) >>) \o note) :
      caption \in {<< >>, << TextElem("ArticleCaption", "c" \o ToString(j)) >>},
      title \in {<< >>, << TextElem("ArticleTitle", "a" \o ToString(j)) >>},
      note \in {<< >>, << TextElem("SupplNote", "n" \o ToString(j)) >>} }

\* The sequences of at most n Article elements, from position j on.
RECURSIVE BodyArticleSeqs(_, _)
BodyArticleSeqs(n, j) ==
  IF n = 0 THEN {<< >>}
  ELSE {<< >>} \cup
       { << a >> \o rest : a \in BodyArticleDocs(j), rest \in BodyArticleSeqs(n - 1, j + 1) }

\* MainProvision elements: articles, or paragraphs of its own (one of them
\* with an Item).
BodyMainDocs ==
  { Elem("MainProvision", NoAttrs, None, None, articles) :
      articles \in BodyArticleSeqs(MaxArticles, 1) }
  \cup
  { Elem("MainProvision", NoAttrs, None, None, << ParagraphElem("m") >>),
    Elem("MainProvision", NoAttrs, None, None,
         << [ParagraphElem("m") EXCEPT !.kids = @ \o << ExampleItem >>] >>) }

\* What a LawBody holds ahead of its MainProvision besides the title and
\* the enact statement: a table of contents, a preamble.
BeforeMain ==
  { << >>,
    << Elem("TOC", NoAttrs, None, None, << TextElem("TOCLabel", "toc") >>) >>,
    << Elem("Preamble", NoAttrs, None, None, << ParagraphElem("pre") >>) >>,
    << Elem("TOC", NoAttrs, None, None, << TextElem("TOCLabel", "toc") >>),
       Elem("Preamble", NoAttrs, None, None, << ParagraphElem("pre") >>) >> }

\* ... and behind it: a supplementary provision, an appendix table.
AfterMain ==
  { << >>,
    << Elem("SupplProvision", NoAttrs, None, None,
            << TextElem("SupplProvisionLabel", "sl"), ParagraphElem("sp") >>) >>,
    << Elem("AppdxTable", NoAttrs, None, None,
            << TextElem("AppdxTableTitle", "at") >>) >>,
    << Elem("SupplProvision", NoAttrs, None, None,
            << TextElem("SupplProvisionLabel", "sl"), ParagraphElem("sp") >>),
       Elem("AppdxTable", NoAttrs, None, None,
            << TextElem("AppdxTableTitle", "at") >>) >> }

\* The LawBody of test_simple_law_body, its strings in Latin letters: a
\* title, one article with caption, title and sentence, and a supplementary
\* provision with a label and one paragraph.
ExampleLawBody ==
  Elem("LawBody", NoAttrs, None, None,
       << Elem("LawTitle", ("Kana" :> "taitoru") @@ ("Abbrev" :> ""), Some("title"), None, << >>),
          Elem("MainProvision", NoAttrs, None, None,
               << Elem("Article", "Num" :> "1", None, None,
                       << TextElem("ArticleCaption", "(caption)"),
                          TextElem("ArticleTitle", "article title"),
                          ParagraphElem("sentence") >>) >>),
          Elem("SupplProvision", NoAttrs, None, None,
               << TextElem("SupplProvisionLabel", "suppl label"),
                  Elem("Paragraph", "Num" :> "1", None, None,
                       << Elem("ParagraphNum", NoAttrs, None, None, << >>),
                          Elem("ParagraphSentence", NoAttrs, None, None,
                               << Elem("Sentence", "Num" :> "1", Some("suppl sentence"),
                                       None, << >>) >>) >>) >>) >>)

BodyDocs ==
  {ExampleLawBody} \cup
  { Elem("LawBody", NoAttrs, None, None,
         (((title \o enact) \o before) \o << main >>) \o after) :
      title \in {<< >>, << TextElem("LawTitle", "l") >>},
      enact \in {<< >>, << TextElem("EnactStatement", "e") >>},
      before \in BeforeMain, main \in BodyMainDocs, after \in AfterMain }

\* A Law around each LawBody.
BodyLawDocs ==
  { Elem("Law", ("LawType" :> "Act") @@ LawIdentity, None, None, << LawNumElem, b >>) :
      b \in BodyDocs }

\* The Subitem2 elements offered at position j: the title present or
\* missing, one sentence.
Subitem2Docs(j) ==
  { Elem("Subitem2", "Num" :> ToString(j), None, None,
         title \o << Elem("Subitem2Sentence", NoAttrs, None, None,
                          << SentenceElem("v" \o ToString(j)) >>) >>) :
      title \in {<< >>, << TextElem("Subitem2Title", "V" \o ToString(j)) >>} }

\* The sequences of at most n Subitem2 elements, from position j on.
RECURSIVE Subitem2Seqs(_, _)
Subitem2Seqs(n, j) ==
  IF n = 0 THEN {<< >>}
  ELSE {<< >>} \cup
       { << e >> \o rest : e \in Subitem2Docs(j), rest \in Subitem2Seqs(n - 1, j + 1) }

\* The Subitem1 of test_table.py: a title, a sentence and two Subitem2, each
\* with a title and a sentence (titles in Latin letters).
ExampleSubitem1 ==
  Elem("Subitem1", "Num" :> "1", None, None,
       << TextElem("Subitem1Title", "i"),
          Elem("Subitem1Sentence", NoAttrs, None, None,
               << SentenceElem("Subitem1 sentence") >>),
          Elem("Subitem2", "Num" :> "1", None, None,
               << TextElem("Subitem2Title", "(1)"),
                  Elem("Subitem2Sentence", NoAttrs, None, None,
                       << SentenceElem("Subitem2 sentence 1") >>) >>),
          Elem("Subitem2", "Num" :> "2", None, None,
               << TextElem("Subitem2Title", "(2)"),
                  Elem("Subitem2Sentence", NoAttrs, None, None,
                       << SentenceElem("Subitem2 sentence 2") >>) >>) >>)

\* Subitem1 elements with nested Subitem2 elements.
NestedSubitem1Docs ==
  {ExampleSubitem1} \cup
  { Elem("Subitem1", "Num" :> "1", None, None,
         (title \o << Elem("Subitem1Sentence", NoAttrs, None, None,
                           << SentenceElem("u") >>) >>) \o subitems2) :
      title \in {<< >>, << TextElem("Subitem1Title", "U") >>},
      subitems2 \in Subitem2Seqs(MaxSubitems + 1, 1) }

\* TableColumn elements: no or one Subitem1, a sentence of its own or none.
TableColumnDocs ==
  { Elem("TableColumn", "Valign" :> "top", None, None, sentence \o subitems1) :
      sentence \in {<< >>, << SentenceElem("k") >>},
      subitems1 \in {<< >>} \cup {<< e >> : e \in NestedSubitem1Docs} }

\* Article elements: caption, title and supplementary note present or
\* missing, the title before or behind the caption, one paragraph or two (the
\* first of them with an Item).
TextsArticleDocs ==
  { Elem("Article", "Num" :> "1", None, None,
         ((heading \o paragraphs) \o note)) :
      heading \in {<< >>,
                   << TextElem("ArticleCaption", "c") >>,
                   << TextElem("ArticleTitle", "a") >>,
                   << TextElem("ArticleCaption", "c"), TextElem("ArticleTitle", "a") >>,
                   << TextElem("ArticleTitle", "a"), TextElem("ArticleCaption", "c") >>},
      paragraphs \in {<< ParagraphElem("p") >>,
                      << [ParagraphElem("p") EXCEPT !.kids = @ \o << ExampleItem >>],
                         ParagraphElem("q") >>},
      note \in {<< >>, << TextElem("SupplNote", "n") >>} }

\* The classes whose texts() is read, each bound to an element of its tag.
TextsClasses == {"LawBody", "Law", "Article", "Subitem1", "Subitem2", "TableColumn"}

TextsDocs(c) ==
  CASE c = "LawBody" -> BodyDocs
    [] c = "Article" -> TextsArticleDocs
    [] c = "Law" -> BodyLawDocs
    [] c = "Subitem1" -> NestedSubitem1Docs
    [] c = "Subitem2" -> Subitem2Docs(1)
    [] OTHER -> TableColumnDocs

\* Cls.from_xml_tree(root)
InitTexts ==
  /\ cls \in TextsClasses
  /\ root \in TextsDocs(cls)
  /\ node = BindModel(cls, root)
  /\ cache = EmptyCache
  /\ last = [a \in {"texts"} |-> None]
  /\ served = FALSE

\* list(node.texts())
ListTexts == IsOk(node) /\ Read("texts", Texts(cls, node.val))

NextTexts == ListTexts

SpecTexts == InitTexts /\ [][NextTexts]_vars

----------------------------------------------------------------------------
(* Content sequences: order, text, unsupported content, memoization *)

\* The resolver context behind accessor acc of class c.
ContextOf(c, acc) == IF acc = "tagged_text" THEN "TaggedText" ELSE c

ContentAccessors(c) ==
  (IF HasContents(c) THEN {"contents"} ELSE {}) \cup
  (IF HasTaggedText(c) THEN {"tagged_text"} ELSE {})

\* The tags each context accepts.
LegalTags(ctx) ==
  CASE ctx = "Sentence" -> {"Line", "QuoteStruct", "ArithFormula", "Ruby", "Sup", "Sub"}
    [] ctx = "Line" -> {"QuoteStruct", "ArithFormula", "Ruby", "Sup", "Sub"}
    [] ctx = "QuoteStruct" ->
         {"Sentence", "List", "Fig", "FigStruct", "Table", "TableStruct", "ArithFormula"}
    [] OTHER -> {"Line", "Ruby", "Sup", "Sub"}

\* The kinds of item that wrap their element; the others are built from it.
Wrapping == {"Line", "QuoteStruct", "Sentence"}

\* Child i of e, as an item, can be built.
Builds(e, i) ==
  e.kids[i].tag \in Wrapping \/ IsOk(BindModel(e.kids[i].tag, e.kids[i]))

HeadCount(e) == IF e.text # None THEN 1 ELSE 0

TailsBefore(e, i) == Cardinality({j \in 1..(i - 1) : e.kids[j].tail # None})

\* Where child i's item stands in the sequence resolved from e.
Pos(e, i) == HeadCount(e) + i + TailsBefore(e, i)

\* items is e's head text (if any), then per child in source order its typed
\* item and right after it its tail text (if any), and nothing else.
OrderPreserved(e, items) ==
  /\ Len(items) = HeadCount(e) + Len(e.kids) + TailsBefore(e, Len(e.kids) + 1)
  /\ e.text # None => items[1] = TextNode(e.text[1])
  /\ \A i \in 1..Len(e.kids) :
       /\ items[Pos(e, i)].type = e.kids[i].tag
       /\ e.kids[i].tag \in Wrapping => items[Pos(e, i)].raw_element = e.kids[i]
       /\ e.kids[i].tag \in {"Ruby", "Sup", "Sub"} =>
            items[Pos(e, i)].text = e.kids[i].text[1]
       /\ e.kids[i].tail # None =>
            items[Pos(e, i) + 1] = TextNode(e.kids[i].tail[1])
       /\ e.kids[i].tail = None /\ i < Len(e.kids) =>
            items[Pos(e, i) + 1].type = e.kids[i + 1].tag

\* C1: whenever a resolver (Sentence.contents, Line.contents,
\* QuoteStruct.contents, TaggedText.tagged_text) returns a sequence, that
\* sequence is the head text if present, then for each child in source order
\* its typed item directly followed by its tail text if present, with nothing
\* dropped, reordered or merged; and it does return a sequence when every
\* child has a legal tag and can be built.
C1_OrderPreserved ==
  \A a \in ContentAccessors(cls) :
    last[a] # None =>
      /\ IsOk(last[a][1]) => OrderPreserved(root, last[a][1].val)
      /\ (\A i \in 1..Len(root.kids) :
            root.kids[i].tag \in LegalTags(ContextOf(cls, a)) /\ Builds(root, i))
           => IsOk(last[a][1])

\* <E>head<A/>tailA<B/>tailB</E> resolved to five items.
C1_Witness ==
  /\ last["contents"] # None
  /\ IsOk(last["contents"][1])
  /\ root.text # None
  /\ Len(root.kids) = 2
  /\ root.kids[1].tail # None
  /\ root.kids[2].tail # None
  /\ Len(last["contents"][1].val) = 5

SameOutcome(r1, r2) == r1.exc = r2.exc /\ (IsOk(r1) => r1.val = r2.val)

\* The accessor that gives the content sequence the class's text is made of.
SequenceOf(c) == IF HasContents(c) THEN "contents" ELSE "tagged_text"

\* The concatenation of item.text over the items, left to right.
RECURSIVE ConcatTexts(_)
ConcatTexts(items) ==
  IF items = << >> THEN Ok("")
  ELSE LET h == ItemText(Head(items))
           t == ConcatTexts(Tail(items))
       IN  IF ~IsOk(h) THEN h ELSE IF ~IsOk(t) THEN t ELSE Ok(h.val \o t.val)

\* The items that have a text.
RECURSIVE WithText(_)
WithText(items) ==
  IF items = << >> THEN << >>
  ELSE (IF Head(items).type \in TextBearing THEN << Head(items) >> ELSE << >>)
       \o WithText(Tail(items))

\* C2 as stated: the text of a node equals the concatenation of the text of
\* each item of its content sequence.
C2_TextOfEveryItem ==
  (last[SequenceOf(cls)] # None /\ IsOk(last[SequenceOf(cls)][1]) /\ last["text"] # None)
    => SameOutcome(last["text"][1], ConcatTexts(last[SequenceOf(cls)][1].val))

\* C2, amended: the text of a node equals the concatenation, in sequence
\* order, of the text of each item of its content sequence that has a text;
\* the items of a QuoteStruct that have none (Fig, List, FigStruct, Table,
\* TableStruct) contribute nothing.  The item texts are themselves derived
\* this way, at every depth.
C2_TextIsConcatenation ==
  (last[SequenceOf(cls)] # None /\ IsOk(last[SequenceOf(cls)][1]) /\ last["text"] # None)
    => SameOutcome(last["text"][1], ConcatTexts(WithText(last[SequenceOf(cls)][1].val)))

\* A Tagged-Text node with a Line that itself holds an item, both read.
C2_Witness ==
  /\ cls = "ArticleTitle"
  /\ last["tagged_text"] # None
  /\ last["text"] # None
  /\ IsOk(last["text"][1])
  /\ root.text # None
  /\ Len(root.kids) = 1
  /\ root.kids[1].tag = "Line"
  /\ Len(root.kids[1].kids) = 1
  /\ last["text"][1].val = "hh11"

\* e has a child whose tag context ctx does not accept.
HasIllegalChild(ctx, e) == \E i \in 1..Len(e.kids) : e.kids[i].tag \notin LegalTags(ctx)

FirstIllegal(ctx, e) ==
  SetMin({i \in 1..Len(e.kids) : e.kids[i].tag \notin LegalTags(ctx)})

\* C3 as stated: with a child of an illegal tag, the content sequence and the
\* text both end in the unsupported-content error.
C3_AlwaysUnsupportedContent ==
  \A a \in ContentAccessors(cls) \cup {"text"} :
    (last[a] # None /\ HasIllegalChild(ContextOf(cls, a), root))
      => last[a][1].exc = NotImplementedError

\* What accessor a of class c needs of child j of e succeeds: the child can
\* be built, and for the text of a Tagged-Text node a Line child has a text.
Sound(c, a, e, j) ==
  /\ Builds(e, j)
  /\ (a = "text" /\ ~HasContents(c) /\ e.kids[j].tag = "Line") => IsOk(LineText(e.kids[j]))

\* The children before the first illegal one that are not sound.
UnsoundBefore(c, a, e) ==
  {j \in 1..(FirstIllegal(ContextOf(c, a), e) - 1) : ~Sound(c, a, e, j)}

\* C3, amended: with a child of an illegal tag, the content sequence and the
\* text both end in an exception and return nothing (no partial sequence,
\* none with the child skipped); the exception is the unsupported-content
\* error whenever every child before the first illegal one resolves,
\* otherwise it is the error of the first child that does not: the validation
\* error of a child that cannot be built, or the error of a Line's text.
C3_UnsupportedContent ==
  \A a \in ContentAccessors(cls) \cup {"text"} :
    (last[a] # None /\ HasIllegalChild(ContextOf(cls, a), root))
      => /\ ~IsOk(last[a][1])
         /\ last[a][1].val = << >>
         /\ UnsoundBefore(cls, a, root) = {} => last[a][1].exc = NotImplementedError
         /\ UnsoundBefore(cls, a, root) # {} =>
              last[a][1].exc =
                IF Builds(root, SetMin(UnsoundBefore(cls, a, root)))
                THEN LineText(root.kids[SetMin(UnsoundBefore(cls, a, root))]).exc
                ELSE ValidationError

\* An illegal child after a legal one, read through each accessor.
C3_Witness ==
  /\ cls = "Sentence"
  /\ Len(root.kids) = 2
  /\ root.kids[1].tag = "Line"
  /\ root.kids[2].tag = "Item"
  /\ last["contents"] # None
  /\ last["text"] # None
  /\ last["contents"][1].exc = NotImplementedError
  /\ last["text"][1].exc = NotImplementedError

\* C4: a read of text, contents or tagged_text on a node gives the same
\* outcome as the read of that accessor before it, whatever was read in
\* between.
C4_ReadsAgree ==
  [][\A a \in Accessors : last[a] # None => last'[a] = last[a]]_vars

\* A read served from the store after all three accessors were read.
C4_Witness ==
  /\ served
  /\ cls = "Sentence"
  /\ \A a \in Accessors : last[a] # None /\ IsOk(last[a][1])
  /\ Len(last["contents"][1].val) = 3

----------------------------------------------------------------------------
(* Attributes: absent against empty, decoding, closed enumerations *)

\* The attribute behind each accessor.
RawName(a) ==
  CASE a = "num" -> "Num"
    [] a = "function" -> "Function"
    [] a = "indent" -> "Indent"
    [] a = "writing_mode" -> "WritingMode"
    [] a = "style" -> "Style"
    [] a = "kana" -> "Kana"
    [] a = "abbrev" -> "Abbrev"
    [] a = "abbrev_kana" -> "AbbrevKana"
    [] OTHER -> "LawType"

Has(e, name) == name \in DOMAIN e.attrs

\* C5: an attribute accessor returns absent exactly when the attribute is not
\* on the element: the LawTitle accessors return the raw value when it is
\* there, the empty string included, and the typed accessors of Sentence and
\* Line return absent for a missing attribute only (never 0 or "").
C5_AbsentOnlyWhenAbsent ==
  /\ \A a \in {"kana", "abbrev", "abbrev_kana"} :
       last[a] # None =>
         last[a][1] = IF Has(root, RawName(a))
                      THEN Ok(Some(root.attrs[RawName(a)]))
                      ELSE Ok(None)
  /\ \A a \in {"num", "function", "indent", "writing_mode", "style"} :
       last[a] # None => (last[a][1] = Ok(None) <=> ~Has(root, RawName(a)))

\* <LawTitle Kana="k" Abbrev="">x</LawTitle> with its three accessors read.
C5_Witness ==
  /\ cls = "LawTitle"
  /\ root.attrs = ("Kana" :> "k") @@ ("Abbrev" :> "")
  /\ last["kana"] = Some(Ok(Some("k")))
  /\ last["abbrev"] = Some(Ok(Some("")))
  /\ last["abbrev_kana"] = Some(Ok(None))

\* A raw Num the schema allows: a non-negative decimal integer.
LegalNum(raw) == raw # "" /\ AllDigits(raw)

\* The outcome of an enumerated accessor over a closed set of values.
Decoded(e, name, values) ==
  IF ~Has(e, name) THEN Ok(None)
  ELSE IF e.attrs[name] \in values THEN Ok(Some(e.attrs[name]))
  ELSE Raise(NotImplementedError)

\* C6: on a Sentence, num, function, indent and writing_mode each return the
\* decoded value for a legal raw value, and each raises the
\* unrecognized-enumeration error for any other raw value, a non-numeric or
\* negative Num included.
C6_DecodeOrUnrecognized ==
  cls = "Sentence" =>
    /\ (last["num"] # None /\ Has(root, "Num")) =>
         IF LegalNum(root.attrs["Num"])
         THEN last["num"][1] = Ok(Some(DecVal(root.attrs["Num"], 0)))
         ELSE last["num"][1].exc = NotImplementedError
    /\ last["function"] # None =>
         last["function"][1] = Decoded(root, "Function", FunctionValues)
    /\ last["indent"] # None =>
         last["indent"][1] = Decoded(root, "Indent", IndentValues)
    /\ last["writing_mode"] # None =>
         last["writing_mode"][1] = Decoded(root, "WritingMode", WritingModeValues)

----------------------------------------------------------------------------
(* Construction: mandatory parts, promulgation month and day *)

HasKid(e, tag) == \E i \in 1..Len(e.kids) : e.kids[i].tag = tag

\* e itself lacks a part the schema makes mandatory for it.
Lacks(e) ==
  CASE e.tag = "Law" -> ~HasKid(e, "LawNum") \/ ~HasKid(e, "LawBody")
    [] e.tag = "LawBody" -> ~HasKid(e, "MainProvision")
    [] e.tag = "Article" -> ~HasKid(e, "ArticleTitle")
    [] OTHER -> FALSE

\* e or an element below it lacks a mandatory part.
RECURSIVE AnyLacks(_)
AnyLacks(e) == Lacks(e) \/ \E i \in 1..Len(e.kids) : AnyLacks(e.kids[i])

\* C8: constructing a node from an element that lacks a mandatory part (a
\* LawBody without MainProvision, a Law without LawNum or LawBody, an Article
\* without ArticleTitle), at the top or nested anywhere below it, fails at
\* construction with the required-field-absent error and gives no node.
C8_MissingMandatoryFails == AnyLacks(root) => node = Raise(ValidationError)

\* A raw value a positive-integer attribute accepts.
PositiveRaw(raw) == LegalNum(raw) /\ DecVal(raw, 0) >= 1

\* e without the attributes named.
WithoutAttrs(e, names) ==
  [e EXCEPT !.attrs = [n \in (DOMAIN e.attrs) \ names |-> e.attrs[n]]]

\* C9 as stated: a constructed Law has promulgate_month present if and only
\* if promulgate_day is present.
C9_MonthIffDay ==
  (cls = "Law" /\ IsOk(node)) =>
    (node.val.promulgate_month # None <=> node.val.promulgate_day # None)

\* C9, amended: promulgate_month and promulgate_day are independent optional
\* positive integers.  A constructed Law has each of them present exactly when
\* its own attribute is on the element, a value that is not a positive integer
\* fails construction, and a Law carrying valid values for one, both or
\* neither of them is constructed exactly when it is without them.
C9_MonthAndDayIndependent ==
  cls = "Law" =>
    /\ IsOk(node) =>
         /\ node.val.promulgate_month # None <=> Has(root, "PromulgateMonth")
         /\ node.val.promulgate_day # None <=> Has(root, "PromulgateDay")
    /\ \A name \in {"PromulgateMonth", "PromulgateDay"} :
         (Has(root, name) /\ ~PositiveRaw(root.attrs[name])) => ~IsOk(node)
    /\ (\A name \in {"PromulgateMonth", "PromulgateDay"} :
          Has(root, name) => PositiveRaw(root.attrs[name]))
         => IsOk(node) =
              IsOk(BindModel("Law", WithoutAttrs(root, {"PromulgateMonth", "PromulgateDay"})))
    /\ last["promulgate_month"] # None =>
         last["promulgate_month"][1] = Ok(node.val.promulgate_month)
    /\ last["promulgate_day"] # None =>
         last["promulgate_day"][1] = Ok(node.val.promulgate_day)

\* A constructed Law with PromulgateMonth and without PromulgateDay, both read.
C9_Witness ==
  /\ cls = "Law"
  /\ IsOk(node)
  /\ Has(root, "PromulgateMonth")
  /\ ~Has(root, "PromulgateDay")
  /\ last["promulgate_month"] = Some(Ok(Some(4)))
  /\ last["promulgate_day"] = Some(Ok(None))

----------------------------------------------------------------------------
(* Item.texts(): order of the strings *)

\* The children of e with the given tag, in document order.
Kids(e, tag) == SelectSeq(e.kids, LAMBDA k : k.tag = tag)

\* The character data of an element without child elements.
PlainText(e) == IF e.text # None THEN e.text[1] ELSE ""

PlainTexts(elems) == [i \in 1..Len(elems) |-> PlainText(elems[i])]

RECURSIVE Flatten(_)
Flatten(seqs) == IF seqs = << >> THEN << >> ELSE Head(seqs) \o Flatten(Tail(seqs))

\* The strings of an ItemSentence or Subitem1Sentence element: its Sentence
\* texts, then the Sentence texts of each of its Columns.
SentencePartTexts(e) ==
  PlainTexts(Kids(e, "Sentence")) \o
  Flatten([i \in 1..Len(Kids(e, "Column")) |->
             PlainTexts(Kids(Kids(e, "Column")[i], "Sentence"))])

\* The strings of a title child of e, if it has one.
TitleTexts(e, tag) ==
  IF Kids(e, tag) # << >> THEN << PlainText(Kids(e, tag)[1]) >> ELSE << >>

Subitem1Expected(e) ==
  TitleTexts(e, "Subitem1Title") \o SentencePartTexts(Kids(e, "Subitem1Sentence")[1])

ItemExpected(e) ==
  (TitleTexts(e, "ItemTitle") \o SentencePartTexts(Kids(e, "ItemSentence")[1])) \o
  Flatten([j \in 1..Len(Kids(e, "Subitem1")) |-> Subitem1Expected(Kids(e, "Subitem1")[j])])

----------------------------------------------------------------------------
(* LawBody.texts() and Law.texts() *)

\* The LawBody element a LawBody or Law document holds.
BodyOf(e) == IF e.tag = "Law" THEN Kids(e, "LawBody")[1] ELSE e

\* The strings of a Paragraph element: its sentences, then its items.
ParagraphExpected(e) ==
  PlainTexts(Kids(Kids(e, "ParagraphSentence")[1], "Sentence")) \o
  Flatten([j \in 1..Len(Kids(e, "Item")) |-> ItemExpected(Kids(e, "Item")[j])])

ParagraphsExpected(e) ==
  Flatten([j \in 1..Len(Kids(e, "Paragraph")) |-> ParagraphExpected(Kids(e, "Paragraph")[j])])

\* The strings of an Article element: caption, title, paragraphs, note.
ArticleExpected(e) ==
  ((TitleTexts(e, "ArticleCaption") \o TitleTexts(e, "ArticleTitle")) \o
   ParagraphsExpected(e)) \o TitleTexts(e, "SupplNote")

\* The strings of a MainProvision element: its articles, then its paragraphs.
MainExpected(e) ==
  Flatten([j \in 1..Len(Kids(e, "Article")) |-> ArticleExpected(Kids(e, "Article")[j])]) \o
  ParagraphsExpected(e)

\* Every Article of the MainProvision has a title to yield.
AllTitled(e) ==
  \A j \in 1..Len(Kids(e, "Article")) : HasKid(Kids(e, "Article")[j], "ArticleTitle")

\* title, enact statement, main provision: the strings C11 names.
BodyExpected(e) ==
  (TitleTexts(e, "LawTitle") \o TitleTexts(e, "EnactStatement")) \o
  MainExpected(Kids(e, "MainProvision")[1])

SupplExpected(e) == TitleTexts(e, "SupplProvisionLabel") \o ParagraphsExpected(e)

\* C12: for a LawBody with a law title, a main provision and a supplementary
\* provision, LawBody.texts() yields the title, the main provision's strings
\* and then the supplementary provision's label and the texts of its
\* paragraphs; for the test document these are the six strings of the test.
C12_SupplementaryTextsFollow ==
  (/\ cls = "LawBody"
   /\ IsOk(node)
   /\ HasKid(root, "LawTitle")
   /\ HasKid(root, "SupplProvision")
   /\ ~HasKid(root, "EnactStatement")
   /\ AllTitled(Kids(root, "MainProvision")[1])
   /\ last["texts"] # None) =>
    /\ last["texts"][1] =
         Ok((TitleTexts(root, "LawTitle") \o MainExpected(Kids(root, "MainProvision")[1]))
            \o SupplExpected(Kids(root, "SupplProvision")[1]))
    /\ root = ExampleLawBody =>
         last["texts"][1] = Ok(<< "title", "(caption)", "article title", "sentence",
                                  "suppl label", "suppl sentence" >>)

----------------------------------------------------------------------------
(* QuoteStruct.contents over one structural child *)

\* The child kinds the quoted-structure resolver is said to take.
QuotedKinds ==
  {"Sentence", "Item", "Paragraph", "List", "Fig", "FigStruct", "Table",
   "TableStruct", "AppdxTable", "ArithFormula", "TOCSection"}

\* C13: a QuoteStruct holding text, one child of a kind in QuotedKinds and
\* text again resolves to three items, a Text, a node of the child's kind and
\* a Text; no such kind raises the unsupported-content error.
C13_QuotedKindsResolve ==
  (/\ cls = "QuoteStruct"
   /\ root.text # None
   /\ Len(root.kids) = 1
   /\ root.kids[1].tag \in QuotedKinds
   /\ root.kids[1].tail # None
   /\ last["contents"] # None) =>
    /\ last["contents"][1] # Raise(NotImplementedError)
    /\ IsOk(last["contents"][1]) =>
         /\ Len(last["contents"][1].val) = 3
         /\ last["contents"][1].val[1] = TextNode(root.text[1])
         /\ last["contents"][1].val[2].type = root.kids[1].tag
         /\ last["contents"][1].val[3] = TextNode(root.kids[1].tail[1])

----------------------------------------------------------------------------
(* texts() of Subitem1, Subitem2 and TableColumn *)

\* The strings of a Subitem2 element: its title, then its sentence texts.
Subitem2Expected(e) ==
  TitleTexts(e, "Subitem2Title") \o SentencePartTexts(Kids(e, "Subitem2Sentence")[1])

\* The strings of a Subitem1 element with those of its Subitem2 elements.
NestedSubitem1Expected(e) ==
  Subitem1Expected(e) \o
  Flatten([j \in 1..Len(Kids(e, "Subitem2")) |-> Subitem2Expected(Kids(e, "Subitem2")[j])])

\* C14: Subitem1.texts() yields the title, the sentence texts and then, for
\* each Subitem2 in document order, its title and its sentence texts (for
\* the test document the six strings of the test); Subitem2 and TableColumn
\* expose texts() too.
C14_NestedSubitemTexts ==
  (IsOk(node) /\ last["texts"] # None) =>
    /\ cls = "Subitem1" => last["texts"][1] = Ok(NestedSubitem1Expected(root))
    /\ (cls = "Subitem1" /\ root = ExampleSubitem1) =>
         last["texts"][1] = Ok(<< "i", "Subitem1 sentence", "(1)", "Subitem2 sentence 1",
                                  "(2)", "Subitem2 sentence 2" >>)
    /\ cls = "Subitem2" => last["texts"][1] = Ok(Subitem2Expected(root))
    /\ cls = "TableColumn" => last["texts"][1] # Raise(AttributeError)

----------------------------------------------------------------------------
(* Children of a bound node: the computed elements of the "With..." mixins, *)
(* the list-typed child fields and WithArticleRange.article_range           *)

RecursionError == "RecursionError"

\* The interpreter's limit of nested calls (sys.getrecursionlimit()), scaled
\* down; no outcome depends on the number.
RecursionLimit == 20

\* The table-of-contents classes that inherit WithArticleRange.
TocKinds == {"TOCChapter", "TOCSection", "TOCSubsection", "TOCDivision", "TOCSupplProvision"}

\* The body of the getter once its own read of self.article_range has come
\* back as own: None stays None, anything else is handed to
\* ArticleRange(raw_element=...), which takes an element only.
ArticleRangeBody(m, own) ==
  IF ~IsOk(own) THEN own
  ELSE IF own.val = None THEN Ok(None)
  ELSE Raise(ValidationError)

\* WithArticleRange.article_range entered at the given call depth: the
\* getter reads self.article_range (not article_range_raw), which enters
\* the getter again until the interpreter's limit of nested calls.
RECURSIVE article_range(_, _)
article_range(m, depth) ==
  IF depth > RecursionLimit THEN Raise(RecursionError)
  ELSE ArticleRangeBody(m, article_range(m, depth + 1))

\* One computed element: the property, the raw field it wraps, the class of
\* the node it builds, and whether the getter returns None for a raw field
\* that is None before it builds the node.
P(name, raw, ty, guarded) == [name |-> name, raw |-> raw, ty |-> ty, guarded |-> guarded]

\* The computed elements of the mixins of class c.
Properties(c) ==
  CASE c = "Item" -> {P("item_title", "item_title_raw", "ItemTitle", TRUE)}
    [] c = "LawBody" -> {P("law_title", "law_title_raw", "LawTitle", TRUE),
                         P("enact_statement", "enact_statement_raw", "EnactStatement", TRUE)}
    [] c = "Article" -> {P("article_caption", "article_caption_raw", "ArticleCaption", TRUE),
                         P("article_title", "article_title_raw", "ArticleTitle", FALSE)}
    [] c = "Paragraph" -> {P("paragraph_caption", "paragraph_caption_raw", "ParagraphCaption", TRUE),
                           P("paragraph_num", "paragraph_num_raw", "ParagraphNum", FALSE)}
    [] c = "AppdxNote" -> {P("appdx_note_title", "appdx_note_title_raw", "AppdxNoteTitle", TRUE)}
    [] OTHER -> {}

\* A getter that takes an element without text and children for a missing
\* one.
PropertyNodeSkipEmpty(p, m) ==
  IF m[p.raw] = None \/ (m[p.raw][1].text = None /\ m[p.raw][1].kids = << >>)
  THEN (IF p.guarded THEN Ok(None) ELSE Raise(ValidationError))
  ELSE Ok(Some(RawNode(p.ty, m[p.raw][1])))

\* The getter of computed element p over the model m: Cls(raw_element=raw)
\* validates that it is given an element.
PropertyNode(p, m) ==
  IF m[p.raw] = None
  THEN (IF p.guarded THEN Ok(None) ELSE Raise(ValidationError))
  ELSE Ok(Some(RawNode(p.ty, m[p.raw][1])))

\* The list-typed child fields class c declares.
ListFields(c) ==
  { Schema(c)[i].name : i \in { k \in 1..Len(Schema(c)) : Schema(c)[k].kind = "children" } }

\* Whether class c inherits WithSentences.
HasSentences(c) == \E i \in 1..Len(Schema(c)) : Schema(c)[i].name = "sentence_raw"

\* The most children a generated element holds.
MaxKids == 3

EmptyElem(tag) == Elem(tag, NoAttrs, None, None, << >>)

\* The child elements offered at position j below an element of class c:
\* the children the class declares, a title both empty and with text.
BindKids(c, j) ==
  CASE c = "Item" ->
         {EmptyElem("ItemTitle"), TextElem("ItemTitle", "T"),
          Elem("ItemSentence", NoAttrs, None, None, << SentenceElem("s" \o ToString(j)) >>),
          Elem("Subitem1", "Num" :> ToString(j), None, None,
               << Elem("Subitem1Sentence", NoAttrs, None, None,
                       << SentenceElem("u" \o ToString(j)) >>) >>)}
    [] c = "Paragraph" ->
         {EmptyElem("ParagraphNum"), TextElem("ParagraphNum", "2"),
          Elem("ParagraphSentence", NoAttrs, None, None, << SentenceElem("p" \o ToString(j)) >>),
          Elem("Item", "Num" :> ToString(j), None, None,
               << Elem("ItemSentence", NoAttrs, None, None,
                       << SentenceElem("s" \o ToString(j)) >>) >>)}
    [] c = "Article" ->
         {TextElem("ArticleCaption", "c"), EmptyElem("ArticleTitle"),
          ParagraphElem("p" \o ToString(j)), TextElem("SupplNote", "n")}
    [] c = "MainProvision" ->
         {Elem("Part", "Num" :> ToString(j), None, None, << TextElem("PartTitle", "P") >>),
          ParagraphElem("p" \o ToString(j))}
    [] c = "LawBody" ->
         {EmptyElem("LawTitle"), TextElem("LawTitle", "l"), TextElem("EnactStatement", "e"),
          Elem("MainProvision", NoAttrs, None, None, << ParagraphElem("p" \o ToString(j)) >>)}
    [] c = "AppdxNote" ->
         {EmptyElem("AppdxNoteTitle"), TextElem("AppdxNoteTitle", "N"), EmptyElem("NoteStruct")}
    [] c \in {"ItemSentence", "ListSentence"} ->
         {SentenceElem("s" \o ToString(j)),
          Elem("Column", NoAttrs, None, None, << SentenceElem("k" \o ToString(j)) >>)}
    [] c = "ParagraphSentence" ->
         {SentenceElem("s" \o ToString(j)), EmptyElem("Column")}
    [] c = "List" ->
         {Elem("ListSentence", NoAttrs, None, None, << SentenceElem("s" \o ToString(j)) >>),
          Elem("Sublist1", NoAttrs, None, None,
               << Elem("Sublist1Sentence", NoAttrs, None, None,
                       << SentenceElem("u" \o ToString(j)) >>) >>)}
    [] c = "TOCChapter" -> {TextElem("ChapterTitle", "C"), TextElem("ArticleRange", "(1-2)")}
    [] c = "TOCSection" -> {TextElem("SectionTitle", "C"), TextElem("ArticleRange", "(1-2)")}
    [] c = "TOCSubsection" -> {TextElem("SubsectionTitle", "C"), TextElem("ArticleRange", "(1-2)")}
    [] c = "TOCDivision" -> {TextElem("DivisionTitle", "C"), TextElem("ArticleRange", "(1-2)")}
    [] OTHER -> {TextElem("SupplProvisionLabel", "C"), TextElem("ArticleRange", "(1-2)")}

\* The sequences of at most n children below an element of class c, from
\* position j on.
RECURSIVE BindSeqs(_, _, _)
BindSeqs(c, n, j) ==
  IF n = 0 THEN {<< >>}
  ELSE {<< >>} \cup
       { << e >> \o rest : e \in BindKids(c, j), rest \in BindSeqs(c, n - 1, j + 1) }

\* The classes bound here, each from an element of its own tag.
BindClasses ==
  {"Item", "Paragraph", "Article", "MainProvision", "LawBody", "AppdxNote", "ItemSentence",
   "ListSentence", "ParagraphSentence", "List"} \cup TocKinds

BindDocs(c) ==
  { Elem(c, IF c \in {"Item", "Paragraph", "Article", "AppdxNote", "TOCChapter",
                      "TOCSection", "TOCSubsection"}
            THEN "Num" :> "1" ELSE NoAttrs,
         None, None, ks) : ks \in BindSeqs(c, MaxKids, 1) }

\* What is read of a node of class c: each computed element, the text and
\* the tagged_text of the node it returns, each list field, sentences, and
\* article_range.
BindAccessors(c) ==
  UNION { {p.name, p.name \o ".text", p.name \o ".tagged_text"} : p \in Properties(c) }
  \cup ListFields(c)
  \cup (IF HasSentences(c) THEN {"sentences"} ELSE {})
  \cup (IF c \in TocKinds THEN {"article_range"} ELSE {})

\* Cls.from_xml_tree(root)
InitBind ==
  /\ cls \in BindClasses
  /\ root \in BindDocs(cls)
  /\ node = BindModel(cls, root)
  /\ cache = EmptyCache
  /\ last = [a \in BindAccessors(cls) |-> None]
  /\ served = FALSE

\* node.article_range
ReadArticleRange ==
  /\ cls \in TocKinds
  /\ IsOk(node)
  /\ Read("article_range", article_range(node.val, 1))

\* node.<computed element>
ReadProperty ==
  \E p \in Properties(cls) :
    /\ IsOk(node)
    /\ Read(p.name, PropertyNode(p, node.val))

\* node.<computed element>.text
ReadPropertyText ==
  \E p \in Properties(cls) :
    /\ IsOk(node)
    /\ node.val[p.raw] # None
    /\ Read(p.name \o ".text", TaggedTextText(node.val[p.raw][1]))

\* node.<computed element>.tagged_text
ReadPropertyTaggedText ==
  \E p \in Properties(cls) :
    /\ IsOk(node)
    /\ node.val[p.raw] # None
    /\ Read(p.name \o ".tagged_text", TaggedTextTaggedText(node.val[p.raw][1]))

\* node.<list field>
ReadChildren ==
  \E f \in ListFields(cls) :
    /\ IsOk(node)
    /\ Read(f, Ok(node.val[f]))

\* node.sentences
ReadSentences ==
  /\ HasSentences(cls)
  /\ IsOk(node)
  /\ Read("sentences", Ok(Sentences(node.val)))

NextBind ==
  \/ ReadArticleRange
  \/ ReadProperty
  \/ ReadPropertyText
  \/ ReadPropertyTaggedText
  \/ ReadChildren
  \/ ReadSentences

SpecBind == InitBind /\ [][NextBind]_vars

----------------------------------------------------------------------------
(* article_range of the table-of-contents nodes *)

\* C15: for TOCChapter, TOCSection, TOCSubsection, TOCDivision and
\* TOCSupplProvision, reading article_range terminates with a value: a
\* Tagged-Text node whose text is the character data of the ArticleRange
\* child when the element has one, and nothing when it has none.
C15_ArticleRangeRead ==
  (/\ cls \in TocKinds
   /\ IsOk(node)
   /\ last["article_range"] # None) =>
    /\ IsOk(last["article_range"][1])
    /\ HasKid(root, "ArticleRange") =>
         /\ last["article_range"][1].val # None
         /\ last["article_range"][1].val[1].type = "ArticleRange"
         /\ TaggedTextText(last["article_range"][1].val[1].raw_element) =
              Ok(PlainText(Kids(root, "ArticleRange")[1]))
    /\ ~HasKid(root, "ArticleRange") => last["article_range"][1].val = None

----------------------------------------------------------------------------
(* Optional children that do not occur *)

\* The declared field of class c with the given name.
FieldOf(c, name) == Schema(c)[CHOOSE i \in 1..Len(Schema(c)) : Schema(c)[i].name = name]

\* C16: an optional child that does not occur in the source element is
\* exposed as absent, never as an empty placeholder: a computed element
\* declared Optional is None when the element has no child of its tag; a
\* list field and sentences are None when the element has no child of the
\* tag, and no list that was read is ever empty.
C16_AbsentStaysAbsent ==
  (cls \in BindClasses /\ IsOk(node)) =>
    /\ \A p \in {q \in Properties(cls) : q.guarded} :
         (~HasKid(root, FieldOf(cls, p.raw).tag) /\ last[p.name] # None) =>
           last[p.name][1] = Ok(None)
    /\ \A f \in ListFields(cls) :
         last[f] # None =>
           /\ last[f][1] # Ok(Some(<< >>))
           /\ ~HasKid(root, FieldOf(cls, f).tag) => last[f][1] = Ok(None)
    /\ (HasSentences(cls) /\ last["sentences"] # None) =>
         /\ last["sentences"][1] # Ok(Some(<< >>))
         /\ ~HasKid(root, "Sentence") => last["sentences"][1] = Ok(None)

\* An Item without ItemTitle and without Subitem1, both read: nothing.
C16_Witness ==
  /\ cls = "Item"
  /\ IsOk(node)
  /\ ~HasKid(root, "ItemTitle") /\ ~HasKid(root, "Subitem1")
  /\ last["item_title"] = Some(Ok(None))
  /\ last["subitems"] = Some(Ok(None))

----------------------------------------------------------------------------
(* Elements that are present but empty *)

\* Whether the child of e that a field of the given tag binds is there and
\* has no text and no children.
EmptyKid(e, tag) ==
  /\ HasKid(e, tag)
  /\ Kids(e, tag)[1].text = None
  /\ Kids(e, tag)[1].kids = << >>

\* C17: a Tagged-Text element that is present but empty (no text, no
\* children), such as <ParagraphNum/> or <AppdxNoteTitle />, is exposed as a
\* present node whose text is "" and whose tagged_text has no items; it is
\* never exposed as absent.
C17_EmptyIsPresent ==
  (cls \in BindClasses /\ IsOk(node)) =>
    \A p \in Properties(cls) :
      EmptyKid(root, FieldOf(cls, p.raw).tag) =>
        /\ last[p.name] # None =>
             last[p.name][1] = Ok(Some(RawNode(p.ty, Kids(root, FieldOf(cls, p.raw).tag)[1])))
        /\ last[p.name \o ".text"] # None => last[p.name \o ".text"][1] = Ok("")
        /\ last[p.name \o ".tagged_text"] # None => last[p.name \o ".tagged_text"][1] = Ok(<< >>)

\* A Paragraph with <ParagraphNum/>: the node, its text and its tagged_text
\* read.
C17_Witness ==
  /\ cls = "Paragraph"
  /\ IsOk(node)
  /\ EmptyKid(root, "ParagraphNum")
  /\ last["paragraph_num"] = Some(Ok(Some(RawNode("ParagraphNum", EmptyElem("ParagraphNum")))))
  /\ last["paragraph_num.text"] = Some(Ok(""))
  /\ last["paragraph_num.tagged_text"] = Some(Ok(<< >>))

----------------------------------------------------------------------------
(* List-typed child fields *)

\* The nodes a list field f of class c should hold for the element e: one
\* per child of the field's tag, in document order.
ListExpected(c, e, f) ==
  [i \in 1..Len(Kids(e, FieldOf(c, f).tag)) |->
     BindModel(FieldOf(c, f).ty, Kids(e, FieldOf(c, f).tag)[i]).val]

\* ... and the Sentence nodes of sentences.
SentencesExpected(e) ==
  [i \in 1..Len(Kids(e, "Sentence")) |-> RawNode("Sentence", Kids(e, "Sentence")[i])]

\* Whether the lists read of the element hold one node per matching child.
ListsComplete ==
  /\ \A f \in ListFields(cls) :
       (last[f] # None /\ HasKid(root, FieldOf(cls, f).tag)) =>
         last[f][1] = Ok(IF FieldOf(cls, f).req
                         THEN ListExpected(cls, root, f)
                         ELSE Some(ListExpected(cls, root, f)))
  /\ (HasSentences(cls) /\ last["sentences"] # None /\ HasKid(root, "Sentence")) =>
       last["sentences"][1] = Ok(Some(SentencesExpected(root)))

\* C18 as stated: every list-typed child field holds one node per matching
\* child element, in document order, none dropped or duplicated, also when
\* elements of other tags are interleaved between them.
C18_ListsInDocumentOrder ==
  (cls \in BindClasses /\ IsOk(node)) => ListsComplete

\* The position of the declared field of class c that binds children of
\* the given tag (0: none does).
FieldIndex(c, tag) ==
  IF \E i \in 1..Len(Schema(c)) : Schema(c)[i].tag = tag /\ Schema(c)[i].kind \notin {"attr", "text"}
  THEN CHOOSE i \in 1..Len(Schema(c)) :
         Schema(c)[i].tag = tag /\ Schema(c)[i].kind \notin {"attr", "text"}
  ELSE 0

\* Whether the children of e stand in the order of the fields class c
\* declares, with no other element among them.
InDeclaredOrder(c, e) ==
  /\ \A i \in 1..Len(e.kids) : FieldIndex(c, e.kids[i].tag) # 0
  /\ \A i, j \in 1..Len(e.kids) :
       i < j =>
         /\ FieldIndex(c, e.kids[i].tag) <= FieldIndex(c, e.kids[j].tag)
         /\ (e.kids[i].tag = e.kids[j].tag =>
               Schema(c)[FieldIndex(c, e.kids[i].tag)].kind \in {"children", "raws", "elemtexts"})

\* C18 (amended): every list-typed child field holds one node per matching
\* child element, in document order, none dropped or duplicated; in a class
\* bound with unordered search also when elements of other tags are
\* interleaved between them, in a class bound with the default strict search
\* when the children stand in the order of the declared fields.
C18_ListsInDocumentOrderWhereSearched ==
  (/\ cls \in BindClasses
   /\ IsOk(node)
   /\ SearchMode(cls) = "unordered" \/ InDeclaredOrder(cls, root)) => ListsComplete

\* An Item whose two Subitem1 have the ItemSentence between them, subitems
\* read: both, in document order.
C18_Witness ==
  /\ cls = "Item"
  /\ IsOk(node)
  /\ [i \in 1..Len(root.kids) |-> root.kids[i].tag] = << "Subitem1", "ItemSentence", "Subitem1" >>
  /\ last["subitems"] = Some(Ok(Some(ListExpected("Item", root, "subitems"))))
  /\ Len(last["subitems"][1].val[1]) = 2

----------------------------------------------------------------------------
(* texts() as a generator: calls and resumptions *)

\* The most generators alive at once.
MaxGens == 2

\* The generator object a call of texts() returns: nothing of the body has
\* run yet.  pos counts the yields passed, out keeps what next() returned,
\* done tells that the body has returned (StopIteration).
GenStart(m) == [pos |-> 0, out |-> << >>, done |-> FALSE]

\* A resumption that passes over one yield without returning its string.
GenNextSkipping(kind, m, g) ==
  IF g.pos + 1 < Len(Texts(kind, m).val)
  THEN [pos |-> g.pos + 2, out |-> Append(g.out, Texts(kind, m).val[g.pos + 2]),
        done |-> FALSE]
  ELSE [g EXCEPT !.done = TRUE]

\* next(g) on a generator of node m: the body runs on from the yield it
\* stopped at, over the fields of m, to the next yield or to its end.
GenNext(kind, m, g) ==
  IF g.pos < Len(Texts(kind, m).val)
  THEN [pos |-> g.pos + 1, out |-> Append(g.out, Texts(kind, m).val[g.pos + 1]),
        done |-> FALSE]
  ELSE [g EXCEPT !.done = TRUE]

\* The Item elements whose texts() is called: the example and the elements
\* with their children in every order.
GenDocs == {ExampleItem} \cup BindDocs("Item")

\* Item.from_xml_tree(root); no generator yet.
InitGen ==
  /\ cls = "Item"
  /\ root \in GenDocs
  /\ node = BindModel("Item", root)
  /\ IsOk(node)
  /\ cache = EmptyCache
  /\ last = << >>
  /\ served = FALSE

\* g = node.texts()
CallTexts ==
  /\ Len(last) < MaxGens
  /\ last' = Append(last, GenStart(node.val))
  /\ UNCHANGED <<root, cls, node, cache, served>>

\* next(g) for one of the generators that has not ended
NextText ==
  \E i \in 1..Len(last) :
    /\ ~last[i].done
    /\ last' = [last EXCEPT ![i] = GenNext(cls, node.val, @)]
    /\ UNCHANGED <<root, cls, node, cache, served>>

NextGen == CallTexts \/ NextText

SpecGen == InitGen /\ [][NextGen]_vars

\* C19: texts() is finite and restartable: every generator returned by a
\* call yields, whatever was consumed of the others, the strings of the
\* element from the first on (what it has returned is always the beginning
\* of the same sequence), and it ends after the last of them; two
\* generators that have ended have returned equal sequences.
C19_TextsRestartable ==
  /\ \A i \in 1..Len(last) :
       /\ Len(last[i].out) <= Len(ItemExpected(root))
       /\ last[i].out = SubSeq(ItemExpected(root), 1, Len(last[i].out))
       /\ last[i].done => last[i].out = ItemExpected(root)
  /\ \A i, j \in 1..Len(last) : (last[i].done /\ last[j].done) => last[i].out = last[j].out

\* The Item of the example: a first generator left after one string, a
\* second one run to its end.
C19_Witness ==
  /\ root = ExampleItem
  /\ Len(last) = 2
  /\ last[1].out = << "Item title" >> /\ ~last[1].done
  /\ last[2].out = << "Item title", "Item sentence" >> /\ last[2].done

----------------------------------------------------------------------------
(* Quoted structures nested in sentences *)

\* The items of a content sequence that are not Text.
NonText(items) == SelectSeq(items, LAMBDA x : x.type # "Text")

\* Whether e holds exactly one child, of the given tag.
OnlyKid(e, tag) == Len(e.kids) = 1 /\ e.kids[1].tag = tag

\* Whether e holds no text of its own and none after it.
Bare(e) == e.text = None /\ e.tail = None

\* Sentence > QuoteStruct > Sentence > QuoteStruct > Fig, text only at the
\* outer level.
NestedQuote(e) ==
  /\ e.tag = "Sentence" /\ OnlyKid(e, "QuoteStruct")
  /\ OnlyKid(e.kids[1], "Sentence") /\ e.kids[1].text = None
  /\ OnlyKid(e.kids[1].kids[1], "QuoteStruct") /\ Bare(e.kids[1].kids[1])
  /\ OnlyKid(e.kids[1].kids[1].kids[1], "Fig") /\ Bare(e.kids[1].kids[1].kids[1])
  /\ "src" \in DOMAIN e.kids[1].kids[1].kids[1].kids[1].attrs

\* The content sequences below the outer one, each read from the single
\* item of the level above.
Level2(outer) == QuoteStructContents(NonText(outer)[1].raw_element)

Level3(outer) == SentenceContents(Level2(outer).val[1].raw_element)

Level4(outer) == QuoteStructContents(Level3(outer).val[1].raw_element)

\* C20: for a Sentence holding a QuoteStruct holding a Sentence holding a
\* QuoteStruct holding a Fig, the outer contents holds, apart from its text
\* items, one item, the QuoteStruct; each nested contents holds exactly one
\* item (a Sentence, a QuoteStruct, a Fig), and the src of the innermost Fig
\* is the attribute's value as written.
C20_NestedQuoteStruct ==
  (cls = "Sentence" /\ NestedQuote(root) /\ last["contents"] # None) =>
    /\ IsOk(last["contents"][1])
    /\ Len(NonText(last["contents"][1].val)) = 1
    /\ NonText(last["contents"][1].val)[1] = RawNode("QuoteStruct", root.kids[1])
    /\ IsOk(Level2(last["contents"][1].val))
    /\ Len(Level2(last["contents"][1].val).val) = 1
    /\ Level2(last["contents"][1].val).val[1].type = "Sentence"
    /\ IsOk(Level3(last["contents"][1].val))
    /\ Len(Level3(last["contents"][1].val).val) = 1
    /\ Level3(last["contents"][1].val).val[1].type = "QuoteStruct"
    /\ IsOk(Level4(last["contents"][1].val))
    /\ Len(Level4(last["contents"][1].val).val) = 1
    /\ Level4(last["contents"][1].val).val[1].type = "Fig"
    /\ Level4(last["contents"][1].val).val[1].src =
         root.kids[1].kids[1].kids[1].kids[1].attrs["src"]

\* The Sentence of the test, contents read: "AAA", the QuoteStruct, " BBB",
\* and "url" at the innermost level.
C20_Witness ==
  /\ root = ExampleNested
  /\ last["contents"] =
       Some(Ok(<< TextNode("AAA"), RawNode("QuoteStruct", ExampleNested.kids[1]),
                  TextNode(" BBB") >>))
  /\ Level4(last["contents"][1].val).val[1].src = "url"

----------------------------------------------------------------------------
(* The items of a content sequence: item.text, ruby.rt and the text of the *)
(* node that holds them                                                    *)

\* The most children a generated holder of items has.
MaxItems == 2

\* <Ruby>text<Rt>..</Rt>..</Ruby> with n Rt children, at position j.
RubyElem(tx, n, tl, j) ==
  Elem("Ruby", NoAttrs, tx, tl,
       [k \in 1..n |-> TextElem("Rt", "y" \o ToString(j) \o ToString(k))])

FigElem == Elem("Fig", "src" :> "a.jpg", None, None, << >>)

\* The children offered at position j below a holder of class c: for the
\* inline holders every inline kind (legal there or not), for a QuoteStruct
\* every kind its chain names.
VariantKids(c, j) ==
  IF c = "QuoteStruct"
  THEN {SentenceElem("s" \o ToString(j)),
        FigElem,
        Elem("List", NoAttrs, None, None,
             << Elem("ListSentence", NoAttrs, None, None, << SentenceElem("l") >>) >>),
        Elem("FigStruct", NoAttrs, None, None, << FigElem >>),
        Elem("Table", NoAttrs, None, Some("t" \o ToString(j)),
             << Elem("TableRow", NoAttrs, None, None, << EmptyElem("TableColumn") >>) >>),
        Elem("TableStruct", NoAttrs, None, None,
             << Elem("Table", NoAttrs, None, None,
                     << Elem("TableRow", NoAttrs, None, None,
                             << EmptyElem("TableColumn") >>) >>) >>),
        Elem("ArithFormula", NoAttrs, None, None, << >>)}
  ELSE {RubyElem(Some("r" \o ToString(j)), 1, None, j),
        RubyElem(Some("r" \o ToString(j)), 2, Some("t" \o ToString(j)), j),
        RubyElem(None, 1, None, j),
        Elem("Sup", NoAttrs, Some("p" \o ToString(j)), None, << >>),
        Elem("ArithFormula", NoAttrs, None, Some("t" \o ToString(j)), << FigElem >>),
        Elem("Line", NoAttrs, Some("n" \o ToString(j)), None,
             << Elem("ArithFormula", NoAttrs, None, Some("m" \o ToString(j)), << FigElem >>) >>),
        Elem("Line", NoAttrs, None, Some("t" \o ToString(j)),
             << RubyElem(Some("q" \o ToString(j)), 1, None, j) >>),
        Elem("Line", NoAttrs, None, None,
             << Elem("ArithFormula", NoAttrs, None, None,
                     << Elem("Fig", NoAttrs, None, None, << >>) >>) >>),
        Elem("QuoteStruct", NoAttrs, None, None, << FigElem >>)}

\* The sequences of at most n children below a holder of class c.
RECURSIVE VariantSeqs(_, _, _)
VariantSeqs(c, n, j) ==
  IF n = 0 THEN {<< >>}
  ELSE {<< >>} \cup
       { << e >> \o rest : e \in VariantKids(c, j), rest \in VariantSeqs(c, n - 1, j + 1) }

\* <ArticleCaption>A<Line><ArithFormula><Fig src="a.jpg"/></ArithFormula>
\* </Line>B</ArticleCaption>
ExampleCaption ==
  Elem("ArticleCaption", NoAttrs, Some("A"), None,
       << Elem("Line", NoAttrs, None, Some("B"),
               << Elem("ArithFormula", NoAttrs, None, None, << FigElem >>) >>) >>)

VariantClasses == ContentClasses \cup {"ArticleCaption"}

VariantDocs(c) ==
  IF c = "ArticleCaption" THEN {ExampleCaption}
  ELSE { Elem(c, NoAttrs, tx, None, ks) :
           tx \in {None, Some("h")}, ks \in VariantSeqs(c, MaxItems, 1) }

\* Nothing read yet of a sequence of n items.
NoItemReads(n) == [text |-> None, item |-> [i \in 1..n |-> None], rt |-> [i \in 1..n |-> None]]

\* A node of class cls over root and its content sequence (contents where
\* the class has it, tagged_text elsewhere), resolved.
InitVariants ==
  /\ cls \in VariantClasses
  /\ root \in VariantDocs(cls)
  /\ node = Resolve(IF HasContents(cls) THEN cls ELSE "TaggedText", root)
  /\ cache = EmptyCache
  /\ last = NoItemReads(IF IsOk(node) THEN Len(node.val) ELSE 0)
  /\ served = FALSE

\* sequence[i].text
ReadItemText ==
  \E i \in DOMAIN last.item :
    /\ last' = [last EXCEPT !.item[i] = Some(ItemText(node.val[i]))]
    /\ UNCHANGED <<root, cls, node, cache, served>>

\* sequence[i].rt of a Ruby item
ReadItemRt ==
  \E i \in DOMAIN last.rt :
    /\ node.val[i].type = "Ruby"
    /\ last' = [last EXCEPT !.rt[i] = Some(Ok(node.val[i].rt))]
    /\ UNCHANGED <<root, cls, node, cache, served>>

\* node.text
ReadHolderText ==
  /\ last' = [last EXCEPT !.text = Some(TextBody(cls, root, node))]
  /\ UNCHANGED <<root, cls, node, cache, served>>

NextVariants == ReadItemText \/ ReadItemRt \/ ReadHolderText

SpecVariants == InitVariants /\ [][NextVariants]_vars

----------------------------------------------------------------------------
(* The text accessor of the items *)

\* C21 as stated: every item a resolver emits has a text accessor: Text,
\* Ruby, Sup, Sub, Line, QuoteStruct, ArithFormula and also the items of a
\* QuoteStruct (Sentence, Fig, List, FigStruct, Table, TableStruct).
C21_EveryItemHasText ==
  \A i \in DOMAIN last.item :
    last.item[i] # None => last.item[i][1].exc # AttributeError

\* The kinds of item that define text.
WithTextAccessor == {"Text", "Ruby", "Sup", "Sub", "Line", "QuoteStruct", "ArithFormula", "Sentence"}

\* C21 (amended): every item of kind Text, Ruby, Sup, Sub, Line,
\* QuoteStruct, ArithFormula or Sentence has a text accessor: for Text, Ruby,
\* Sup and Sub it gives the item's own character data, for ArithFormula the
\* empty string; of the items emitted inside a QuoteStruct, Fig, List,
\* FigStruct, Table and TableStruct have no text accessor.
C21_InlineItemsHaveText ==
  \A i \in DOMAIN last.item :
    last.item[i] # None =>
      /\ node.val[i].type \in WithTextAccessor <=> last.item[i][1].exc # AttributeError
      /\ node.val[i].type \in {"Text", "Ruby", "Sup", "Sub"} =>
           last.item[i][1] = Ok(node.val[i].text)
      /\ node.val[i].type = "ArithFormula" => last.item[i][1] = Ok("")

\* A QuoteStruct with a Sentence and a Fig: the text of the Sentence read,
\* the read of the Fig's text ended in AttributeError.
C21_Witness ==
  /\ cls = "QuoteStruct"
  /\ IsOk(node)
  /\ [i \in 1..Len(node.val) |-> node.val[i].type] = << "Sentence", "Fig" >>
  /\ last.item[1] = Some(Ok("s1"))
  /\ last.item[2] = Some(Raise(AttributeError))

----------------------------------------------------------------------------
(* Node objects: what each read of a computed element constructs *)

\* The most node objects constructed in one behaviour.
MaxObjects == 3

\* A node object as constructed: the node and its own store of derived
\* values (functools.cached_property keeps them in the object).
NewObject(n) == [node |-> n, text |-> None]

\* Cls.from_xml_tree(root); no title node constructed yet.
InitObjects ==
  /\ cls \in {"Item", "Article"}
  /\ root \in BindDocs(cls)
  /\ node = BindModel(cls, root)
  /\ cache = << >>
  /\ last = 0
  /\ served = FALSE

\* x = node.<computed element>: the getter runs on every read and, where
\* the child is there, constructs Cls(raw_element=...); last is the object
\* the read returned.
GetProperty ==
  \E p \in Properties(cls) :
    /\ IsOk(node)
    /\ IsOk(PropertyNode(p, node.val))
    /\ PropertyNode(p, node.val).val # None
    /\ Len(cache) < MaxObjects
    /\ cache' = Append(cache, NewObject(PropertyNode(p, node.val).val[1]))
    /\ last' = Len(cache) + 1
    /\ UNCHANGED <<root, cls, node, served>>

\* x.text on one of the objects constructed: computed and stored in that
\* object on its first read.
GetObjectText ==
  \E i \in 1..Len(cache) :
    /\ cache[i].text = None
    /\ IsOk(TaggedTextText(cache[i].node.raw_element))
    /\ cache' = [cache EXCEPT ![i].text = Some(TaggedTextText(cache[i].node.raw_element).val)]
    /\ UNCHANGED <<root, cls, node, last, served>>

NextObjects == GetProperty \/ GetObjectText

SpecObjects == InitObjects /\ [][NextObjects]_vars

\* C22: after any sequence of accessor reads at most one node object has
\* been constructed for each source element, so reading the same child
\* accessor twice returns the same node with its cached derived values.
C22_OneNodePerElement ==
  \A i, j \in 1..Len(cache) :
    (cache[i].node.type = cache[j].node.type
     /\ cache[i].node.raw_element = cache[j].node.raw_element) => i = j

----------------------------------------------------------------------------
(* texts(): document order *)

\* The elements whose character data texts() yields as one fragment.
FragmentTags == {"ItemTitle", "Subitem1Title", "Sentence"}

\* The fragments below the elements elems[i..], in document order.
RECURSIVE DocumentOrder(_, _)
DocumentOrder(elems, i) ==
  IF i > Len(elems) THEN << >>
  ELSE (IF elems[i].tag \in FragmentTags
        THEN << PlainText(elems[i]) >>
        ELSE DocumentOrder(elems[i].kids, 1)) \o DocumentOrder(elems, i + 1)

\* Whether a[i..] can be read off b[j..] from left to right.
RECURSIVE IsSubsequence(_, _, _, _)
IsSubsequence(a, i, b, j) ==
  IF i > Len(a) THEN TRUE
  ELSE IF j > Len(b) THEN FALSE
  ELSE IF a[i] = b[j] THEN IsSubsequence(a, i + 1, b, j + 1)
  ELSE IsSubsequence(a, i, b, j + 1)

\* C23: every texts() traversal yields its fragments in document order, also
\* when children of different kinds are interleaved in the source: the
\* strings of list(item.texts()) come from elements that follow each other
\* in the document.
C23_TextsInDocumentOrder ==
  (cls = "Item" /\ IsOk(node) /\ last["texts"] # None /\ IsOk(last["texts"][1])) =>
    IsSubsequence(last["texts"][1].val, 1, DocumentOrder(<< root >>, 1), 1)

----------------------------------------------------------------------------
(* Article.texts() *)

\* C24: Article.texts() yields exactly, in this order: the caption's text if
\* the caption is present, the article title's text, then for each Paragraph
\* in document order its sentence texts and then each Item's texts(), then
\* the supplementary note's text if the note is present.  (An Article
\* without ArticleTitle has no title text to yield: the read of the title
\* raises.)
C24_ArticleTexts ==
  (cls = "Article" /\ IsOk(node) /\ last["texts"] # None) =>
    last["texts"][1] =
      IF HasKid(root, "ArticleTitle")
      THEN Ok(ArticleExpected(root))
      ELSE Raise(ValidationError)

\* An Article with caption, title, two paragraphs (the first with an Item)
\* and a supplementary note, its texts read.
C24_Witness ==
  /\ cls = "Article"
  /\ last["texts"] =
       Some(Ok(<< "c", "a", "p", "Item title", "Item sentence", "q", "n" >>))

----------------------------------------------------------------------------
(* The node tree: descent from a node to the nodes its accessors build *)

WalkClasses == ContentClasses \cup {"Item"}

WalkDocs(c) == IF c = "Item" THEN BindDocs("Item") ELSE ContentDocs(c)

\* The nodes that keep a raw element and derive further nodes from it.
Deriving == {"Sentence", "Line", "QuoteStruct", "ArticleTitle", "ItemTitle"}

\* item.item_title of a bound Item, as the list of the Item's derived nodes.
ItemChildNodes(m, title) ==
  IF ~IsOk(m) THEN m
  ELSE IF ~IsOk(title) THEN title
  ELSE Ok(title.val)

\* The nodes one accessor of node n builds: item_title of an Item, contents
\* or tagged_text of a node over a raw element.
ChildNodes(n, acc) ==
  IF n.type = "Item"
  THEN ItemChildNodes(BindModel("Item", n.raw_element),
                      PropertyNode(P("item_title", "item_title_raw", "ItemTitle", TRUE),
                                   BindModel("Item", n.raw_element).val))
  ELSE Resolve(ContextOf(n.type, acc), n.raw_element)

\* Whether node n has the accessor.
HasAccessor(n, acc) ==
  CASE n.type = "Item" -> acc = "item_title"
    [] acc = "contents" -> HasContents(n.type)
    [] acc = "tagged_text" -> HasTaggedText(n.type)
    [] OTHER -> FALSE

\* Cls.from_xml_tree(root) or Cls(raw_element=root); node is the path from
\* that node down to the node last entered.
InitWalk ==
  /\ cls \in WalkClasses
  /\ root \in WalkDocs(cls)
  /\ node = << RawNode(cls, root) >>
  /\ cache = EmptyCache
  /\ last = None
  /\ served = FALSE

\* One accessor of the node last entered is read and returns its nodes.
ReadChildNodes ==
  \E acc \in {"item_title", "contents", "tagged_text"} :
    /\ HasAccessor(node[Len(node)], acc)
    /\ IsOk(ChildNodes(node[Len(node)], acc))
    /\ last' = Some(ChildNodes(node[Len(node)], acc).val)
    /\ UNCHANGED <<root, cls, node, cache, served>>

\* The walk enters one of the nodes just returned.
EnterChild ==
  /\ last # None
  /\ \E i \in 1..Len(last[1]) :
       /\ last[1][i].type \in Deriving
       /\ node' = Append(node, last[1][i])
  /\ last' = None
  /\ UNCHANGED <<root, cls, cache, served>>

NextWalk == ReadChildNodes \/ EnterChild

SpecWalk == InitWalk /\ [][NextWalk]_vars

\* The greater of two numbers, the second one given as d + 1.
Deeper(a, d) == IF a > d THEN a ELSE d + 1

\* The number of levels of the deepest of the elements elems[i..].
RECURSIVE ElemDepth(_, _)
ElemDepth(elems, i) ==
  IF i > Len(elems) THEN 0
  ELSE Deeper(ElemDepth(elems, i + 1), ElemDepth(elems[i].kids, 1))

\* Whether node n is built over the child element kid.
BuiltOver(n, kid) ==
  IF n.type \in Deriving
  THEN n = RawNode(kid.tag, kid)
  ELSE n.type = kid.tag /\ Ok(n) = BindModel(kid.tag, kid)

\* C25: the node tree is acyclic and strictly hierarchical: every node is
\* built over a child element of the element its parent is built over (so
\* over a strict descendant of every ancestor's element), no node on a path
\* is one of its own ancestors, and a path of nodes is never longer than the
\* document is deep.
C25_StrictlyHierarchical ==
  /\ \A k \in 1..(Len(node) - 1) :
       \E j \in 1..Len(node[k].raw_element.kids) :
         BuiltOver(node[k + 1], node[k].raw_element.kids[j])
  /\ \A j, k \in 1..Len(node) : j < k => node[j] # node[k]
  /\ Len(node) <= ElemDepth(<< root >>, 1)
  /\ last # None =>
       /\ Len(node) < ElemDepth(<< root >>, 1) \/ \A i \in 1..Len(last[1]) : last[1][i].type = "Text"
       /\ \A i \in 1..Len(last[1]) :
            \/ last[1][i].type = "Text"
            \/ \E j \in 1..Len(node[Len(node)].raw_element.kids) :
                 BuiltOver(last[1][i], node[Len(node)].raw_element.kids[j])

\* The walk has gone from the outer Sentence of the nested example down to
\* the inner QuoteStruct and read its contents.
C25_Witness ==
  /\ root = ExampleNested
  /\ Len(node) = 4
  /\ node[4].type = "QuoteStruct"
  /\ last # None
  /\ Len(last[1]) = 1
  /\ last[1][1].type = "Fig"

----------------------------------------------------------------------------
(* One element resolved in the three contexts *)

ResolverContexts == {"TaggedText", "Line", "Sentence"}

\* The child elements offered at position j: each tag one of the contexts
\* accepts, an ArithFormula that cannot be built (its Fig has no src), and a
\* tag none of them accepts.
ContextKids(j) ==
  { Elem("Sup", NoAttrs, Some("s" \o ToString(j)), Some("t" \o ToString(j)), << >>),
    RubyElem(Some("r" \o ToString(j)), 1, None, j),
    Elem("Line", NoAttrs, Some("n" \o ToString(j)), None, << >>),
    Elem("QuoteStruct", NoAttrs, None, Some("u" \o ToString(j)), << FigElem >>),
    Elem("ArithFormula", NoAttrs, None, None, << FigElem >>),
    Elem("ArithFormula", NoAttrs, None, None, << Elem("Fig", NoAttrs, None, None, << >>) >>),
    Elem("Item", NoAttrs, None, None, << >>) }

\* The sequences of at most n such children, from position j on.
RECURSIVE ContextSeqs(_, _)
ContextSeqs(n, j) ==
  IF n = 0 THEN {<< >>}
  ELSE {<< >>} \cup
       { << e >> \o rest : e \in ContextKids(j), rest \in ContextSeqs(n - 1, j + 1) }

\* The elements resolved, whatever their own tag.
ContextDocs ==
  { Elem(c, NoAttrs, tx, None, ks) :
      c \in {"Sentence", "Line", "ArticleTitle"},
      tx \in {None, Some("h")},
      ks \in ContextSeqs(MaxItems, 1) }

\* elm = root; last holds the outcome of each context read so far.
InitContexts ==
  /\ root \in ContextDocs
  /\ cls = root.tag
  /\ node = Ok(RawNode(cls, root))
  /\ cache = EmptyCache
  /\ last = [ctx \in ResolverContexts |-> None]
  /\ served = FALSE

\* Sentence(raw_element=elm).contents, Line(raw_element=elm).contents or
\* TaggedText(raw_element=elm).tagged_text
ResolveIn ==
  \E ctx \in ResolverContexts :
    /\ last' = [last EXCEPT ![ctx] = Some(Resolve(ctx, root))]
    /\ UNCHANGED <<root, cls, node, cache, served>>

NextContexts == ResolveIn

SpecContexts == InitContexts /\ [][NextContexts]_vars

\* The one algorithm over a set of legal tags: head text, then per child in
\* document order the item of the child and its tail text; a child of
\* another tag ends it with the unsupported-content error, a child that
\* cannot be built with the error of the build.
RECURSIVE SharedAlgorithm(_, _, _, _)
SharedAlgorithm(legal, e, i, items) ==
  IF i > Len(e.kids) THEN Ok(items)
  ELSE IF e.kids[i].tag \notin legal THEN Raise(NotImplementedError)
  ELSE IF e.kids[i].tag \in Wrapping
  THEN SharedAlgorithm(legal, e, i + 1,
                       (items \o << RawNode(e.kids[i].tag, e.kids[i]) >>) \o TailText(e.kids[i]))
  ELSE IF ~IsOk(BindModel(e.kids[i].tag, e.kids[i]))
  THEN BindModel(e.kids[i].tag, e.kids[i])
  ELSE SharedAlgorithm(legal, e, i + 1,
                       (items \o << BindModel(e.kids[i].tag, e.kids[i]).val >>) \o
                       TailText(e.kids[i]))

\* The tags the three contexts are said to accept.
AcceptedTags(ctx) ==
  CASE ctx = "TaggedText" -> {"Line", "Ruby", "Sup", "Sub"}
    [] ctx = "Line" -> {"QuoteStruct", "ArithFormula", "Ruby", "Sup", "Sub"}
    [] OTHER -> {"Line", "QuoteStruct", "ArithFormula", "Ruby", "Sup", "Sub"}

\* Child i of e is reached: every child before it has an accepted tag and
\* can be built.
Reached(ctx, e, i) ==
  \A j \in 1..(i - 1) : e.kids[j].tag \in AcceptedTags(ctx) /\ Builds(e, j)

----------------------------------------------------------------------------
(* Ruby and ArithFormula in flattened text *)

\* The flattened text expected of the inline children kids[i..]: a Ruby, Sup
\* or Sub gives its own character data, a Line its own flattened text, an
\* ArithFormula and a QuoteStruct of figures nothing; each is followed by its
\* tail text.
RECURSIVE ExpectedInline(_, _)
ExpectedInline(kids, i) ==
  IF i > Len(kids) THEN ""
  ELSE ((IF kids[i].tag \in {"Ruby", "Sup", "Sub"} THEN PlainText(kids[i])
         ELSE IF kids[i].tag = "Line"
         THEN PlainText(kids[i]) \o ExpectedInline(kids[i].kids, 1)
         ELSE "")
        \o (IF kids[i].tail # None THEN kids[i].tail[1] ELSE ""))
       \o ExpectedInline(kids, i + 1)

\* C27: a Ruby item contributes only its base character data: its text is the
\* element's own leading text, the empty string if there is none; its Rt
\* strings are in rt in document order, and the text of the enclosing
\* Tagged-Text, Line or Sentence holds the base text and no Rt string.
C27_RubyBaseText ==
  cls # "QuoteStruct" =>
    /\ (\A k \in 1..Len(root.kids) : root.kids[k].tag \in {"Ruby", "Sup"}) => IsOk(node)
    /\ IsOk(node) =>
         /\ \A k \in 1..Len(root.kids) :
              root.kids[k].tag = "Ruby" =>
                /\ last.item[Pos(root, k)] # None =>
                     last.item[Pos(root, k)][1] = Ok(PlainText(root.kids[k]))
                /\ last.rt[Pos(root, k)] # None =>
                     last.rt[Pos(root, k)][1] = Ok(PlainTexts(Kids(root.kids[k], "Rt")))
         /\ (last.text # None /\ IsOk(last.text[1])) =>
              last.text[1].val = PlainText(root) \o ExpectedInline(root.kids, 1)

\* e holds an ArithFormula, directly or inside a Line.
RECURSIVE HoldsArithFormula(_)
HoldsArithFormula(e) ==
  \E k \in 1..Len(e.kids) :
    \/ e.kids[k].tag = "ArithFormula"
    \/ e.kids[k].tag = "Line" /\ HoldsArithFormula(e.kids[k])

\* Every ArithFormula e holds, directly or inside a Line, can be built.
RECURSIVE FormulasBuild(_)
FormulasBuild(e) ==
  \A k \in 1..Len(e.kids) :
    /\ e.kids[k].tag = "ArithFormula" => IsOk(BindModel("ArithFormula", e.kids[k]))
    /\ e.kids[k].tag = "Line" => FormulasBuild(e.kids[k])

\* Character data t joined to the end of character data s.
JoinedText(s, t) ==
  IF t = None THEN s ELSE IF s = None THEN t ELSE Some(s[1] \o t[1])

\* The tail tl of a removed child goes where the document has it then: behind
\* the child before it, or at the head of the element.
KeepTail(e, tl) ==
  IF e.kids = << >> THEN [e EXCEPT !.text = JoinedText(@, tl)]
  ELSE [e EXCEPT !.kids[Len(e.kids)].tail = JoinedText(@, tl)]

RECURSIVE WithoutArithFormula(_)

\* done is e up to child i - 1 with its ArithFormula children removed.
RECURSIVE WithoutArithFormulaFrom(_, _, _)
WithoutArithFormulaFrom(e, i, done) ==
  IF i > Len(e.kids) THEN done
  ELSE WithoutArithFormulaFrom(e, i + 1,
         IF e.kids[i].tag = "ArithFormula" THEN KeepTail(done, e.kids[i].tail)
         ELSE IF e.kids[i].tag = "Line"
         THEN [done EXCEPT !.kids = Append(@, WithoutArithFormula(e.kids[i]))]
         ELSE [done EXCEPT !.kids = Append(@, e.kids[i])])

\* e with every ArithFormula it holds, directly or inside a Line, removed
\* and the tail text of each kept.
WithoutArithFormula(e) == WithoutArithFormulaFrom(e, 1, [e EXCEPT !.kids = << >>])

\* node.text of a node of class c over element e.
HolderText(c, e) ==
  TextBody(c, e, Resolve(IF HasContents(c) THEN c ELSE "TaggedText", e))

----------------------------------------------------------------------------
(* Sentence: contents and text beside the inherited tagged_text *)

\* The content of e resolves at every depth: each child has a tag its
\* parent's resolver accepts and can be built, and so on below the children
\* that wrap their element.
RECURSIVE Resolvable(_)
Resolvable(e) ==
  \A k \in 1..Len(e.kids) :
    /\ e.kids[k].tag \in LegalTags(e.tag)
    /\ Builds(e, k)
    /\ e.kids[k].tag \in Wrapping => Resolvable(e.kids[k])

----------------------------------------------------------------------------
(* Errors deferred to access: the Sentences of a ParagraphSentence *)

\* The Sentence elements offered at position j: a plain one, one with a
\* child tag no resolver of Sentence accepts, one with an illegal Function, and
\* one whose Line has an illegal Style.
DeferredKids(j) ==
  { SentenceElem("s" \o ToString(j)),
    Elem("Sentence", NoAttrs, Some("u" \o ToString(j)), None,
         << Elem("Item", NoAttrs, None, None, << >>) >>),
    Elem("Sentence", "Function" :> "Main", Some("f" \o ToString(j)), None, << >>),
    Elem("Sentence", NoAttrs, None, None,
         << Elem("Line", "Style" :> "thick", Some("l" \o ToString(j)), None, << >>) >>) }

\* ParagraphSentence elements of no, one or two Sentences.
DeferredDocs ==
  { Elem("ParagraphSentence", NoAttrs, None, None, ks) :
      ks \in ({<< >>} \cup {<< x >> : x \in DeferredKids(1)}) \cup
             {<< x, y >> : x \in DeferredKids(1), y \in DeferredKids(2)} }

SentenceAccessors == {"contents", "text", "tagged_text", "function", "style"}

\* sentence.contents as the bodies of text and of a read of contents[0] see it.
StoredContents(store, s) == CacheGet(store, "contents", SentenceContents(s))

\* One read of an accessor of the Sentence over s, its cached values being
\* in store; style is read off the Line that is the first item of contents.
SentenceRead(store, s, acc) ==
  CASE acc = "contents" -> StoredContents(store, s)
    [] acc = "tagged_text" -> CacheGet(store, "tagged_text", TaggedTextTaggedText(s))
    [] acc = "text" -> CacheGet(store, "text", JoinContents(StoredContents(store, s), FALSE))
    [] acc = "function" -> SentenceFunction(s)
    [] OTHER -> IF IsOk(StoredContents(store, s)) THEN LineStyle(s.kids[1])
                ELSE StoredContents(store, s)

\* The cached values of the Sentence after that read.
StoreAfter(store, s, acc) ==
  CASE acc \in {"contents", "style"} -> CachePut(store, "contents", StoredContents(store, s))
    [] acc = "tagged_text" -> CachePut(store, "tagged_text", SentenceRead(store, s, acc))
    [] acc = "text" ->
         CachePut(IF store["text"] = None
                  THEN CachePut(store, "contents", StoredContents(store, s))
                  ELSE store,
                  "text", SentenceRead(store, s, acc))
    [] OTHER -> store

\* A generator that computes every text before it yields the first.
ParagraphSentenceNextEager(m, r, g) ==
  IF ~IsOk(ParagraphSentenceTexts(m)) THEN [g EXCEPT !.done = TRUE, !.exc = ParagraphSentenceTexts(m).exc]
  ELSE IF g.pos >= Len(ParagraphSentenceTexts(m).val) THEN [g EXCEPT !.done = TRUE]
  ELSE [g EXCEPT !.pos = @ + 1, !.out = Append(@, r.val)]

\* next(g) on a generator of ParagraphSentence.texts that has yielded g.pos
\* strings, r being the outcome of sentence.text of the next Sentence: the
\* loop ends, yields r, or the exception of r leaves the generator.
ParagraphSentenceNext(m, r, g) ==
  IF Sentences(m) = None \/ g.pos >= Len(Sentences(m)[1]) THEN [g EXCEPT !.done = TRUE]
  ELSE IF IsOk(r) THEN [g EXCEPT !.pos = @ + 1, !.out = Append(@, r.val)]
  ELSE [g EXCEPT !.done = TRUE, !.exc = r.exc]

\* The element of Sentence i of the bound ParagraphSentence.
SentenceAt(i) == Sentences(node.val)[1][i].raw_element

\* ParagraphSentence.from_xml_tree(root): nothing read, no generator.
InitDeferred ==
  /\ cls = "ParagraphSentence"
  /\ root \in DeferredDocs
  /\ node = BindModel("ParagraphSentence", root)
  /\ cache = [i \in 1..Len(root.kids) |-> EmptyCache]
  /\ last = [read |-> [i \in 1..Len(root.kids) |-> [a \in SentenceAccessors |-> None]],
             gen |-> None]
  /\ served = FALSE

\* node.sentences[i].<acc>; served tells that this accessor of this Sentence
\* was read before.
ReadOfSentence ==
  \E i \in DOMAIN cache, acc \in SentenceAccessors :
    /\ IsOk(node)
    /\ acc = "style" =>
         /\ SentenceAt(i).text = None
         /\ SentenceAt(i).kids # << >>
         /\ SentenceAt(i).kids[1].tag = "Line"
    /\ last' = [last EXCEPT !.read[i][acc] = Some(SentenceRead(cache[i], SentenceAt(i), acc))]
    /\ cache' = [cache EXCEPT ![i] = StoreAfter(@, SentenceAt(i), acc)]
    /\ served' = (last.read[i][acc] # None)
    /\ UNCHANGED <<root, cls, node>>

\* g = node.texts()
StartTexts ==
  /\ IsOk(node)
  /\ last.gen = None
  /\ last' = [last EXCEPT !.gen = Some([pos |-> 0, out |-> << >>, done |-> FALSE, exc |-> ""])]
  /\ UNCHANGED <<root, cls, node, cache, served>>

\* next(g): the body reads the text of the next Sentence, if there is one.
ResumeTexts ==
  /\ last.gen # None
  /\ ~last.gen[1].done
  /\ IF last.gen[1].pos < Len(cache)
     THEN /\ last' = [last EXCEPT !.gen[1] =
                        ParagraphSentenceNext(node.val,
                          SentenceRead(cache[last.gen[1].pos + 1],
                                       SentenceAt(last.gen[1].pos + 1), "text"), @)]
          /\ cache' = [cache EXCEPT ![last.gen[1].pos + 1] =
                         StoreAfter(@, SentenceAt(last.gen[1].pos + 1), "text")]
     ELSE /\ last' = [last EXCEPT !.gen[1] = ParagraphSentenceNext(node.val, Ok(""), @)]
          /\ cache' = cache
  /\ UNCHANGED <<root, cls, node, served>>

NextDeferred == ReadOfSentence \/ StartTexts \/ ResumeTexts

SpecDeferred == InitDeferred /\ [][NextDeferred]_vars

\* The read of accessor acc of the Sentence element s must fail: an
\* unsupported child for the content accessors, an illegal value for the
\* attribute.
Offends(s, acc) ==
  CASE acc \in {"contents", "text", "tagged_text"} -> HasKid(s, "Item")
    [] acc = "function" -> Has(s, "Function") /\ s.attrs["Function"] \notin FunctionValues
    [] OTHER -> Has(s.kids[1], "Style") /\ s.kids[1].attrs["Style"] \notin StyleValues

\* The Sentences of e whose text must fail.
Offending(e) == {i \in 1..Len(e.kids) : Offends(e.kids[i], "text")}

\* How many Sentences of e stand before the first one whose text must fail.
Preceding(e) == IF Offending(e) = {} THEN Len(e.kids) ELSE SetMin(Offending(e)) - 1

\* C30: unsupported-content and unrecognized-enumeration errors are deferred
\* to access.  The document is constructed whatever its Sentences hold; a
\* read fails exactly when the accessor read is the one the offence is in,
\* with NotImplementedError, every time it is read and with nothing stored;
\* and a texts() traversal has yielded the text of every Sentence before
\* the offending one when it raises.
C30_DeferredToAccess ==
  /\ IsOk(node)
  /\ IF root.kids = << >> THEN Sentences(node.val) = None
     ELSE Len(Sentences(node.val)[1]) = Len(root.kids)
  /\ \A i \in DOMAIN cache : \A a \in SentenceAccessors :
       last.read[i][a] # None =>
         /\ IsOk(last.read[i][a][1]) <=> ~Offends(root.kids[i], a)
         /\ ~IsOk(last.read[i][a][1]) =>
              /\ last.read[i][a][1] = Raise(NotImplementedError)
              /\ a \in Accessors => cache[i][a] = None
  /\ last.gen # None =>
       /\ last.gen[1].pos <= Preceding(root)
       /\ last.gen[1].out =
            [k \in 1..last.gen[1].pos |->
               PlainText(root.kids[k]) \o ExpectedInline(root.kids[k].kids, 1)]
       /\ last.gen[1].done => last.gen[1].pos = Preceding(root)
       /\ last.gen[1].exc # "" <=> (last.gen[1].done /\ Offending(root) # {})
       /\ last.gen[1].exc # "" => last.gen[1].exc = NotImplementedError

\* A plain Sentence before one with an unsupported child: the traversal has
\* yielded the first text and raised, and contents of the second Sentence
\* was read a second time and raised again.
C30_Witness ==
  /\ Len(root.kids) = 2
  /\ HasKid(root.kids[2], "Item")
  /\ last.gen = Some([pos |-> 1, out |-> << "s1" >>, done |-> TRUE, exc |-> NotImplementedError])
  /\ served
  /\ last.read[2]["contents"] = Some(Raise(NotImplementedError))
  /\ last.read[2]["function"] = Some(Ok(None))

====
